---- MODULE Spec2Model ----
(***************************************************************************)
(* Model of the Spica MCP server: the request adapter makeSpicaRequest,    *)
(* the tool handlers built on it (bucket, passport identity / apikey /     *)
(* policy, function), and the documentation tools backed by the vector     *)
(* store provider.  A tool invocation is a handler that runs up to its     *)
(* next await; every outbound call is answered by the remote platform      *)
(* (success, non-2xx response, or transport failure).                      *)
(***************************************************************************)
EXTENDS Integers, Sequences, FiniteSets, TLC

VARIABLES
    config,     \* [spicaUrl, apiKey] read by makeSpicaRequest
    remote,     \* documents of the remote platform, by endpoint
    tool,       \* name of the tool whose handler runs, "none" before the first
    args,       \* validated arguments of the running handler
    pc,         \* "idle" | "await" (adapter request in flight) | "ask" (provider
                \* call in flight) | "done" : position of the handler
    pending,    \* request in flight (NoRequest when none)
    calls,      \* requests put on the wire by the running handler, in order
    local,      \* handler locals: currentData, created, index of the policy loop
    result,     \* text returned by the handler (NoResult while running)
    served,     \* number of handler invocations started so far
    writes,     \* number of writes made by other clients of the remote
    stale,      \* <<d>> when another client wrote d to the fetched resource
                \* after this handler's GET, <<>> otherwise
    failed,     \* the request whose failure was raised to the running handler
    openaiClient,     \* TRUE when OPENAI_API_KEY was set and the client was built
    VECTOR_STORE_ID,  \* process.env.VECTOR_STORE_ID || ""
    awaited,    \* provider call in flight (NoCall when none)
    asked,      \* provider calls made by the running handler, in order
    doc,        \* locals of the documentation handlers
    afterFailure, \* TRUE when the invocation before the running one returned a
                  \* failure text
    sameAsBefore, \* TRUE when the running invocation names the same tool with
                  \* the same arguments as the invocation before it
    lastOutcome,  \* how the last request of the running handler was answered
    configFile,   \* values given by config.json of the working directory
    registry,     \* names of the registered tools, in registration order
    logged,       \* a configuration loading error was written to the console
    previous,     \* fields set by the successful update of the same resource
                  \* that came right before the running invocation, when
                  \* the running one supplies other fields
    attempts    \* HTTP attempts made for the requests of the running handler

vars == <<config, remote, tool, args, pc, pending, calls, local, result,
          served, writes, stale, failed, openaiClient, VECTOR_STORE_ID,
          awaited, asked, doc, afterFailure, sameAsBefore, lastOutcome, attempts,
          configFile, registry, logged, previous>>

----------------------------------------------------------------------------
(* Bounds *)

MaxInvocations == 2
MaxWrites == 1
MaxPolicies == 2
MaxResults == 3

----------------------------------------------------------------------------
(* Values *)

\* identifiers of remote resources, values a caller supplies, the value another
\* client writes, policy ids, error bodies of the remote, transport error messages
Ids == {"i1", "i2"}
Vals == {"v1"}
OtherVals == {"w1"}
PolicyIds == {"p1", "p2"}
ErrBodies == {"e404"}
NetMessages == {"ECONNREFUSED"}

EmptyDoc == [k \in {} |-> "v1"]

\* { ...a, ...b } : top-level keys of b overwrite those of a
Spread(a, b) ==
    [k \in (DOMAIN a) \cup (DOMAIN b) |-> IF k \in DOMAIN b THEN b[k] ELSE a[k]]

\* all objects with keys among ks and values drawn from vs
Objects(ks, vs) == UNION { [S -> vs] : S \in SUBSET ks }


\* the object { [k]: v }
Obj(k, v) == [x \in {k} |-> v]

\* an object without the key k (a key whose value is undefined is not serialised)
Without(a, k) == [x \in (DOMAIN a) \ {k} |-> a[x]]

\* o[k] = v
Assign(o, k, v) == [x \in (DOMAIN o) \cup {k} |-> IF x = k THEN v ELSE o[x]]

\* o.k is present (not undefined)
Has(o, k) == k \in DOMAIN o

----------------------------------------------------------------------------
(* Request adapter *)

NoRequest == [verb |-> "none", endpoint |-> <<>>, data |-> EmptyDoc,
              authorization |-> "", contentType |-> ""]

ConfigError == <<"Spica URL and API key must be configured in MCP setup config.">>

UnsupportedMethod(method) == <<"Unsupported HTTP method: ", method>>

\* JSON.stringify(body, null, 2) of an error body
JSONStringify(body) == <<"json", body>>

\* toLowerCase left out: the switch sees the method as written
ToLowerCase_Identity(method) == method

\* String.prototype.toLowerCase on the method names in use
ToLowerCase(method) ==
    CASE method \in {"GET", "get", "Get"} -> "get"
      [] method \in {"POST", "post", "Post"} -> "post"
      [] method \in {"PUT", "put", "Put"} -> "put"
      [] method \in {"DELETE", "delete", "Delete"} -> "delete"
      [] method \in {"PATCH", "patch", "Patch"} -> "patch"
      [] method \in {"HEAD", "head"} -> "head"
      [] OTHER -> method

\* the verbs the switch of makeSpicaRequest dispatches
SupportedVerbs == {"get", "post", "put", "delete"}

\* makeSpicaRequest with only the base URL checked
makeSpicaRequest_UrlOnly(method, endpoint, data) ==
    IF config.spicaUrl = ""
    THEN [thrown |-> TRUE, message |-> ConfigError, request |-> NoRequest]
    ELSE [thrown |-> FALSE, message |-> <<>>,
          request |-> [verb |-> ToLowerCase(method), endpoint |-> endpoint,
                       data |-> data, authorization |-> config.apiKey,
                       contentType |-> "application/json"]]

\* makeSpicaRequest sending no Authorization header value
makeSpicaRequest_NoAuthorization(method, endpoint, data) ==
    IF config.spicaUrl = "" \/ config.apiKey = ""
    THEN [thrown |-> TRUE, message |-> ConfigError, request |-> NoRequest]
    ELSE IF ToLowerCase(method) \in SupportedVerbs
         THEN [thrown |-> FALSE, message |-> <<>>,
               request |-> [verb |-> ToLowerCase(method),
                            endpoint |-> endpoint,
                            data |-> IF ToLowerCase(method) \in {"post", "put"}
                                     THEN data ELSE EmptyDoc,
                            authorization |-> "",
                            contentType |-> "application/json"]]
         ELSE [thrown |-> TRUE, message |-> UnsupportedMethod(method),
               request |-> NoRequest]

\* makeSpicaRequest up to its await: either an error thrown before any
\* network call, or the request handed to axios
makeSpicaRequest(method, endpoint, data) ==
    IF config.spicaUrl = "" \/ config.apiKey = ""
    THEN [thrown |-> TRUE, message |-> ConfigError, request |-> NoRequest]
    ELSE IF ToLowerCase(method) \in SupportedVerbs
         THEN [thrown |-> FALSE, message |-> <<>>,
               request |-> [verb |-> ToLowerCase(method),
                            endpoint |-> endpoint,
                            data |-> IF ToLowerCase(method) \in {"post", "put"}
                                     THEN data ELSE EmptyDoc,
                            authorization |-> config.apiKey,
                            contentType |-> "application/json"]]
         ELSE [thrown |-> TRUE, message |-> UnsupportedMethod(method),
               request |-> NoRequest]

\* a catch block that re-raises the transport error's message only
NormalizeError_MessageOnly(outcome) == outcome.message

\* the catch block of makeSpicaRequest: message of the error it re-raises
NormalizeError(outcome) ==
    IF outcome.type = "http" /\ outcome.body # ""
    THEN JSONStringify(outcome.body)
    ELSE outcome.message

----------------------------------------------------------------------------
(* Text results of the handlers *)

NoResult == [status |-> "none", text |-> "", data |-> EmptyDoc, message |-> <<>>,
             about |-> ""]

\* `${text}\n${JSON.stringify(response.data, null, 2)}` and the fixed texts
Success(text, data) ==
    [status |-> "ok", text |-> text, data |-> data, message |-> <<>>, about |-> ""]

\* `${text}\n${err.message}`
Failure(text, message) ==
    [status |-> "fail", text |-> text, data |-> EmptyDoc, message |-> message,
     about |-> ""]

\* the error makeSpicaRequest raises to a caller that is not a handler
Raised(message) ==
    [status |-> "raised", text |-> "", data |-> EmptyDoc, message |-> message,
     about |-> ""]

\* the response makeSpicaRequest returns to such a caller
Returned(data) ==
    [status |-> "returned", text |-> "", data |-> data, message |-> <<>>,
     about |-> ""]

\* `API key created but failed to assign policy ${policyId}:\n${innerErr.message}`
PartialFailure(policyId, message) ==
    [status |-> "partial", text |-> "API key created but failed to assign policy",
     data |-> EmptyDoc, message |-> message, about |-> policyId]

NoLocal == [currentData |-> EmptyDoc, created |-> EmptyDoc, idx |-> 0]

NoCall == [api |-> "none", vectorStoreId |-> "", query |-> "", fileId |-> "",
           content |-> <<>>]

NoDoc == [searchResponse |-> EmptyDoc, fileScoreMap |-> EmptyDoc,
          fileChunksMap |-> EmptyDoc, bestFileId |-> "", results |-> <<>>,
          files |-> <<>>, idx |-> 0, fileContent |-> <<>>]

\* Await with no catch around the call: the error leaves execute
Await_NoCatch(r, sofar, loc, onThrow) ==
    IF r.thrown
    THEN [pc |-> "thrown", pending |-> NoRequest, calls |-> sofar, local |-> loc,
          result |-> NoResult,
          awaited |-> NoCall, asked |-> <<>>, doc |-> NoDoc]
    ELSE [pc |-> "await", pending |-> r.request, calls |-> Append(sofar, r.request),
          local |-> loc, result |-> NoResult,
          awaited |-> NoCall, asked |-> <<>>, doc |-> NoDoc]

\* A handler calling makeSpicaRequest inside its try block: r is what the
\* adapter did, onThrow the text the enclosing catch returns for r.message.
Await(r, sofar, loc, onThrow) ==
    IF r.thrown
    THEN [pc |-> "done", pending |-> NoRequest, calls |-> sofar, local |-> loc,
          result |-> [onThrow EXCEPT !.message = r.message],
          awaited |-> NoCall, asked |-> <<>>, doc |-> NoDoc]
    ELSE [pc |-> "await", pending |-> r.request, calls |-> Append(sofar, r.request),
          local |-> loc, result |-> NoResult,
          awaited |-> NoCall, asked |-> <<>>, doc |-> NoDoc]

Return(res, sofar, loc) ==
    [pc |-> "done", pending |-> NoRequest, calls |-> sofar, local |-> loc,
     result |-> res, awaited |-> NoCall, asked |-> <<>>, doc |-> NoDoc]

\* a documentation handler awaiting a call of the provider client
Ask(call, sofar, d) ==
    [pc |-> "ask", pending |-> NoRequest, calls |-> <<>>, local |-> NoLocal,
     result |-> NoResult, awaited |-> call, asked |-> Append(sofar, call),
     doc |-> d]

\* a documentation handler returning its text
Answer(res, sofar, d) ==
    [pc |-> "done", pending |-> NoRequest, calls |-> <<>>, local |-> NoLocal,
     result |-> res, awaited |-> NoCall, asked |-> sofar, doc |-> d]

----------------------------------------------------------------------------
(* Tools *)

UpdateTools == {"bucket-update", "passport-identity-update",
                "passport-apikey-update", "passport-policy-update"}

\* collection endpoint of the resource a tool works on
Collection(t) ==
    CASE t \in {"bucket-create", "bucket-update", "bucket-delete"} -> <<"bucket">>
      [] t = "passport-identity-update" -> <<"passport", "identity">>
      [] t \in {"passport-apikey-update", "passport-apikey-create"}
            -> <<"passport", "apikey">>
      [] t = "passport-policy-update" -> <<"passport", "policy">>
      [] t = "function-update" -> <<"function">>

\* `${collection}/${id}`
Resource(t, id) == Append(Collection(t), id)

\* optional fields of the update schemas that the model lets a caller supply
SchemaFields(t) ==
    CASE t = "bucket-update" -> {"title", "description"}
      [] t = "passport-identity-update" -> {"identifier", "password"}
      [] t = "passport-apikey-update" -> {"name", "description"}
      [] t = "passport-policy-update" -> {"name", "description"}

\* text of the catch block of each handler
FailText(t) ==
    CASE t = "bucket-create" -> "Failed to create bucket:"
      [] t = "bucket-update" -> "Failed to update bucket:"
      [] t = "bucket-delete" -> "Failed to delete bucket:"
      [] t = "passport-identity-update" -> "Failed to update identity:"
      [] t = "passport-apikey-update" -> "Failed to update apikey:"
      [] t = "passport-policy-update" -> "Failed to update policy:"
      [] t = "passport-apikey-create" -> "Failed to create apikey:"
      [] t = "function-update" -> "Failed to update function"
      [] t = "bucket-data-list" -> "Failed to list bucket data:"
      [] t = "bucket-data-update" -> "Failed to update bucket data:"
      [] t = "passport-login" -> "Login failed:"

SuccessText(t) ==
    CASE t = "bucket-create" -> "Bucket created successfully:"
      [] t = "bucket-update" -> "Bucket updated successfully:"
      [] t = "bucket-delete" -> "Bucket deleted successfully"
      [] t = "passport-identity-update" -> "Identity updated successfully:"
      [] t = "passport-apikey-update" -> "API key updated:"
      [] t = "passport-policy-update" -> "Policy updated:"
      [] t = "passport-apikey-create" -> "API key created successfully:"
      [] t = "function-update" -> "Function updated:"
      [] t = "bucket-data-list" -> "Bucket data retrieved successfully:"
      [] t = "bucket-data-update" -> "Bucket data updated successfully:"
      [] t = "passport-login" -> "Login successful:"
      [] t = "help" -> "Spica MCP Server - Setup & Workflow Guide"

\* bucketData with readOnly defaulting to true
bucketData_ReadOnlyDefault(a) ==
    [title |-> a.title,
     description |-> a.description,
     icon |-> IF "icon" \in DOMAIN a THEN a.icon ELSE "view_stream",
     primary |-> IF "primary" \in DOMAIN a THEN a.primary ELSE "title",
     readOnly |-> IF "readOnly" \in DOMAIN a THEN a.readOnly ELSE TRUE,
     history |-> IF "history" \in DOMAIN a THEN a.history ELSE FALSE,
     properties |-> a.properties,
     acl |-> IF "acl" \in DOMAIN a THEN a.acl
             ELSE [read |-> "true==true", write |-> "true==true"],
     order |-> 0]

\* bucket-create: destructuring defaults and the bucketData literal
bucketData(a) ==
    [title |-> a.title,
     description |-> a.description,
     icon |-> IF "icon" \in DOMAIN a THEN a.icon ELSE "view_stream",
     primary |-> IF "primary" \in DOMAIN a THEN a.primary ELSE "title",
     readOnly |-> IF "readOnly" \in DOMAIN a THEN a.readOnly ELSE FALSE,
     history |-> IF "history" \in DOMAIN a THEN a.history ELSE FALSE,
     properties |-> a.properties,
     acl |-> IF "acl" \in DOMAIN a THEN a.acl
             ELSE [read |-> "true==true", write |-> "true==true"],
     order |-> 0]

\* the spread with the operands swapped: { ...updateData, ...currentData, _id }
mergedData_UpdateFirst(currentData, updateData, bucketId) ==
    Spread(Spread(updateData, currentData), Obj("_id", bucketId))

\* bucket-update: { ...currentData, ...updateData, _id: bucketId }
mergedData(currentData, updateData, bucketId) ==
    Spread(Spread(currentData, updateData), Obj("_id", bucketId))

\* a write of the supplied fields alone: { ...update, _id: id }
mergedIdentity_OnlyUpdate(currentData, update, id) ==
    Spread(update, Obj("_id", id))

\* passport-identity-update: { ...current.data, ...update, _id: id }
mergedIdentity(currentData, update, id) ==
    Spread(Spread(currentData, update), Obj("_id", id))

\* the PUT body built from the supplied fields alone
mergedApikey_OnlyUpdate(currentData, update, id) == update

\* passport-apikey-update: { ...current.data, ...update }
mergedApikey(currentData, update, id) ==
    Spread(currentData, update)

\* passport-policy-update: { ...current.data, ...update }
mergedPolicy(currentData, update, id) ==
    Spread(currentData, update)

merged(t, currentData, update, id) ==
    CASE t = "bucket-update" -> mergedData(currentData, update, id)
      [] t = "passport-identity-update" -> mergedIdentity(currentData, update, id)
      [] t = "passport-apikey-update" -> mergedApikey(currentData, update, id)
      [] t = "passport-policy-update" -> mergedPolicy(currentData, update, id)

\* passport-apikey-create: { name, description, active } with active = true
\* by default; an undefined description is not serialised
apikeyBody(a) ==
    Spread(Spread(Obj("name", a.name),
                  IF "description" \in DOMAIN a
                  THEN Obj("description", a.description) ELSE EmptyDoc),
           Obj("active", IF "active" \in DOMAIN a THEN a.active ELSE TRUE))

\* a handler that never looks at the listed policies
HasPolicies_Never(a) == FALSE

\* `policies && policies.length > 0`
HasPolicies(a) == "policies" \in DOMAIN a /\ Len(a.policies) > 0

\* `${created._id}` in the attachment path
CreatedId(created) == IF "_id" \in DOMAIN created THEN created._id ELSE "undefined"

\* `/passport/apikey/${created._id}/policy/${policyId}`
AttachEndpoint(created, policyId) ==
    <<"passport", "apikey", CreatedId(created), "policy", policyId>>

----------------------------------------------------------------------------
(* Documentation tools: search, fetch, answer_question *)

DocTools == {"search", "fetch", "answer_question"}

ProviderMessages == {"Connection error."}

\* String.prototype.trim on the strings in use
Trim(q) == IF q = " " THEN "" ELSE q

\* Array.prototype.join("\n")
Join(chunks) ==
    [i \in 1..(IF Len(chunks) = 0 THEN 0 ELSE 2 * Len(chunks) - 1) |->
        IF i % 2 = 1 THEN chunks[(i + 1) \div 2] ELSE "\n"]

\* `${err}` of an Error
ErrorToString(message) == <<"Error: ">> \o message

SearchCall(query) ==
    [NoCall EXCEPT !.api = "vectorStores.search",
                   !.vectorStoreId = VECTOR_STORE_ID, !.query = query]

ListCall ==
    [NoCall EXCEPT !.api = "vectorStores.files.list",
                   !.vectorStoreId = VECTOR_STORE_ID]

RetrieveCall(id) == [NoCall EXCEPT !.api = "files.retrieve", !.fileId = id]

ContentCall(id) ==
    [NoCall EXCEPT !.api = "vectorStores.files.content",
                   !.vectorStoreId = VECTOR_STORE_ID, !.fileId = id]

\* the prompt template around combinedText and the user's query
ChatCall(combinedText, query) ==
    [NoCall EXCEPT !.api = "chat.completions.create", !.query = query,
                   !.content = combinedText]

\* item.score || 0
ScoreOf(item) == IF Has(item, "score") THEN item.score ELSE 0

\* the texts of content that are not empty, in order
NonEmptyTexts(content) ==
    LET kept == SelectSeq(content, LAMBDA c : Has(c, "text") /\ c.text # "")
    IN  [i \in 1..Len(kept) |-> kept[i].text]

\* texts pushed for one search result
Texts(item) == IF Has(item, "content") THEN NonEmptyTexts(item.content) ELSE <<>>

\* `Document ${fileId}`
DocumentTitle(fileId) == <<"Document ", fileId>>

\* item.filename || `Document ${fileId}`
Filename(o, fileId) ==
    IF Has(o, "filename") /\ o.filename # "" THEN <<o.filename>>
    ELSE DocumentTitle(fileId)

FileUrl(fileId) == <<"https://platform.openai.com/storage/files/", fileId>>

NoGroups == [keys |-> <<>>, fileScoreMap |-> EmptyDoc, fileChunksMap |-> EmptyDoc]

\* Group keeping the score of the last chunk of a file instead of the sum
Group_LastScore(g, item) ==
    IF ~(Has(item, "file_id") /\ item.file_id # "")
    THEN g
    ELSE LET fileId == item.file_id
             chunks == IF Has(g.fileChunksMap, fileId)
                       THEN g.fileChunksMap[fileId] ELSE <<>>
         IN  [keys |-> IF Has(g.fileScoreMap, fileId) THEN g.keys
                       ELSE Append(g.keys, fileId),
              fileScoreMap |-> Assign(g.fileScoreMap, fileId, ScoreOf(item)),
              fileChunksMap |-> Assign(g.fileChunksMap, fileId,
                                       chunks \o Texts(item))]

\* one turn of the grouping loop of answer_question; keys is Object.keys of
\* fileScoreMap, i.e. the file ids in order of first insertion
Group(g, item) ==
    IF ~(Has(item, "file_id") /\ item.file_id # "")
    THEN g
    ELSE LET fileId == item.file_id
             total == IF Has(g.fileScoreMap, fileId)
                      THEN g.fileScoreMap[fileId] ELSE 0
             chunks == IF Has(g.fileChunksMap, fileId)
                       THEN g.fileChunksMap[fileId] ELSE <<>>
         IN  [keys |-> IF Has(g.fileScoreMap, fileId) THEN g.keys
                       ELSE Append(g.keys, fileId),
              fileScoreMap |-> Assign(g.fileScoreMap, fileId,
                                      total + ScoreOf(item)),
              fileChunksMap |-> Assign(g.fileChunksMap, fileId,
                                       chunks \o Texts(item))]

RECURSIVE GroupFrom(_, _, _)
GroupFrom(g, data, i) ==
    IF i > Len(data) THEN g ELSE GroupFrom(Group(g, data[i]), data, i + 1)

\* the reduce keeping its accumulator when the next key's total is equal
bestFileId_KeepOnTie(keys, fileScoreMap) ==
    LET acc[i \in 1..Len(keys)] ==
            IF i = 1 THEN keys[1]
            ELSE IF fileScoreMap[acc[i - 1]] >= fileScoreMap[keys[i]]
                 THEN acc[i - 1] ELSE keys[i]
    IN  acc[Len(keys)]

\* Object.keys(fileScoreMap).reduce((a, b) => fileScoreMap[a] > fileScoreMap[b] ? a : b)
bestFileId(keys, fileScoreMap) ==
    LET acc[i \in 1..Len(keys)] ==
            IF i = 1 THEN keys[1]
            ELSE IF fileScoreMap[acc[i - 1]] > fileScoreMap[keys[i]]
                 THEN acc[i - 1] ELSE keys[i]
    IN  acc[Len(keys)]

\* filename of the first search result of the best file
BestFilename(data, fileId) ==
    LET of == SelectSeq(data, LAMBDA item : Has(item, "file_id")
                                            /\ item.file_id = fileId)
    IN  IF Len(of) > 0 THEN Filename(of[1], fileId) ELSE DocumentTitle(fileId)

\* the entry search pushes for one semantic search result
SearchEntry(item) ==
    LET fileId == IF Has(item, "file_id") THEN item.file_id ELSE "undefined"
        textContent == Join(Texts(item))
    IN  [id |-> fileId, title |-> Filename(item, fileId),
         text |-> IF Len(textContent) = 0
                  THEN <<"Content preview not available">> ELSE textContent,
         url |-> FileUrl(fileId), score |-> ScoreOf(item)]

\* a listed file pushed with a score like a search result
ListedEntry_WithScore(fileId, fileInfo) ==
    [id |-> fileId, title |-> Filename(fileInfo, fileId),
     text |-> <<"Content preview not available - use fetch or answer_question tool">>,
     url |-> FileUrl(fileId), score |-> 0]

\* the entry search pushes for one listed file
ListedEntry(fileId, fileInfo) ==
    [id |-> fileId, title |-> Filename(fileInfo, fileId),
     text |-> <<"Content preview not available - use fetch or answer_question tool">>,
     url |-> FileUrl(fileId)]

Found(results) ==
    Success("Found relevant documents", [count |-> Len(results), results |-> results])

\* the fallback loop of search standing before files[k]
RetrieveFrom(files, k, results, sofar, d) ==
    IF k <= Len(files)
    THEN Ask(RetrieveCall(files[k].id), sofar,
             [d EXCEPT !.files = files, !.idx = k, !.results = results])
    ELSE Answer(Found(results), sofar,
                [d EXCEPT !.files = files, !.idx = k, !.results = results])

\* execute of a documentation tool up to its first await
DocStart(t, a) ==
    CASE t = "search" ->
            IF a.query = "" \/ Trim(a.query) = ""
            THEN Answer(Failure("Query cannot be empty", <<>>), <<>>, NoDoc)
            ELSE IF ~openaiClient
            THEN Answer(Failure(" OpenAI client not initialized - API key missing",
                                <<>>), <<>>, NoDoc)
            ELSE IF VECTOR_STORE_ID = ""
            THEN Answer(Failure("Vector store ID not configured", <<>>), <<>>, NoDoc)
            ELSE Ask(SearchCall(a.query), <<>>, NoDoc)
      [] t = "fetch" ->
            IF a.id = ""
            THEN Answer(Failure("Document ID is required", <<>>), <<>>, NoDoc)
            ELSE IF ~openaiClient
            THEN Answer(Failure("OpenAI client not initialized - API key missing",
                                <<>>), <<>>, NoDoc)
            ELSE Ask(ContentCall(a.id), <<>>, NoDoc)
      [] t = "answer_question" ->
            IF a.query = "" \/ Trim(a.query) = ""
            THEN Answer(Failure("Query cannot be empty", <<>>), <<>>, NoDoc)
            ELSE IF ~openaiClient
            THEN Answer(Failure("OpenAI client not initialized - API key missing",
                                <<>>), <<>>, NoDoc)
            ELSE Ask(SearchCall(a.query), <<>>, NoDoc)

\* search after the provider answered call: outcome.type = "ok" with the
\* response object, or the client raised an error
SearchResume(a, call, outcome, response, sofar, d) ==
    IF outcome.type # "ok"
    THEN Answer(Failure("Error searching vector store", outcome.message), sofar, d)
    ELSE CASE call.api = "vectorStores.search" ->
                LET results == IF Has(response, "data")
                               THEN [i \in 1..Len(response.data) |->
                                        SearchEntry(response.data[i])]
                               ELSE <<>>
                    seen == [d EXCEPT !.searchResponse = response,
                                      !.results = results]
                IN  IF Len(results) = 0
                    THEN Ask(ListCall, sofar, seen)
                    ELSE Answer(Found(results), sofar, seen)
           [] call.api = "vectorStores.files.list" ->
                IF Has(response, "data")
                THEN RetrieveFrom(response.data, 1, d.results, sofar, d)
                ELSE Answer(Failure("Error searching vector store",
                                    <<"files.data is not iterable">>), sofar, d)
           [] call.api = "files.retrieve" ->
                RetrieveFrom(d.files, d.idx + 1,
                             Append(d.results,
                                    ListedEntry(d.files[d.idx].id, response)),
                             sofar, d)

\* fetch after the provider answered call
FetchResume(a, call, outcome, response, sofar, d) ==
    CASE call.api = "vectorStores.files.content" ->
            LET fileContent ==
                    IF outcome.type # "ok"
                    THEN <<"Content not available via vector store API. Error: ">>
                             \o outcome.message
                    ELSE IF Has(response, "data")
                         THEN Join(NonEmptyTexts(response.data)) ELSE <<>>
            IN  Ask(RetrieveCall(a.id), sofar, [d EXCEPT !.fileContent = fileContent])
      [] call.api = "files.retrieve" ->
            IF outcome.type # "ok"
            THEN Answer([Failure("Could not fetch document with ID", outcome.message)
                            EXCEPT !.about = a.id], sofar, d)
            ELSE Answer(Success("Document content retrieved",
                                [id |-> a.id, title |-> Filename(response, a.id),
                                 text |-> IF Len(d.fileContent) = 0
                                          THEN <<"Full content access not available - use answer_question tool for semantic search">>
                                          ELSE d.fileContent,
                                 url |-> FileUrl(a.id),
                                 metadata |-> [file_id |-> a.id,
                                               filename |-> Filename(response, a.id),
                                               vector_store_id |-> VECTOR_STORE_ID]]),
                        sofar, d)

\* answer_question without the test for an empty grouping
AnswerResume_ChatWithoutFiles(a, call, outcome, response, sofar, d) ==
    CASE call.api = "vectorStores.search" ->
            IF outcome.type # "ok"
            THEN Answer(Failure("Vector store search not available",
                                ErrorToString(outcome.message)), sofar, d)
            ELSE IF ~Has(response, "data") \/ Len(response.data) = 0
            THEN Answer(Failure("No relevant documents found for your query.", <<>>),
                        sofar, [d EXCEPT !.searchResponse = response])
            ELSE LET g == GroupFrom(NoGroups, response.data, 1)
                     grouped == [d EXCEPT !.searchResponse = response,
                                          !.fileScoreMap = g.fileScoreMap,
                                          !.fileChunksMap = g.fileChunksMap]
                 IN  IF Len(g.keys) = 0
                     THEN Ask(ChatCall(<<>>, a.query), sofar, grouped)
                     ELSE LET best == bestFileId(g.keys, g.fileScoreMap)
                          IN  Ask(ChatCall(Join(g.fileChunksMap[best]), a.query),
                                  sofar, [grouped EXCEPT !.bestFileId = best])
      [] call.api = "chat.completions.create" ->
            IF outcome.type # "ok"
            THEN Answer(Failure("An error occurred while processing your question",
                                outcome.message), sofar, d)
            ELSE IF ~Has(response, "choices") \/ Len(response.choices) = 0
            THEN Answer(Failure("An error occurred while processing your question",
                                <<"Cannot read properties of undefined">>), sofar, d)
            ELSE LET message == response.choices[1].message
                     content == IF Has(message, "content")
                                THEN Trim(message.content) ELSE ""
                 IN  Answer(Success("Question answered",
                                    [query |-> a.query,
                                     answer |-> IF content = ""
                                                THEN "No answer generated"
                                                ELSE content,
                                     source_title |->
                                         BestFilename(d.searchResponse.data,
                                                      d.bestFileId),
                                     source_url |-> FileUrl(d.bestFileId),
                                     relevance_score |->
                                         d.fileScoreMap[d.bestFileId],
                                     success |-> TRUE]),
                            sofar, d)

\* answer_question after the provider answered call
AnswerResume(a, call, outcome, response, sofar, d) ==
    CASE call.api = "vectorStores.search" ->
            IF outcome.type # "ok"
            THEN Answer(Failure("Vector store search not available",
                                ErrorToString(outcome.message)), sofar, d)
            ELSE IF ~Has(response, "data") \/ Len(response.data) = 0
            THEN Answer(Failure("No relevant documents found for your query.", <<>>),
                        sofar, [d EXCEPT !.searchResponse = response])
            ELSE LET g == GroupFrom(NoGroups, response.data, 1)
                     grouped == [d EXCEPT !.searchResponse = response,
                                          !.fileScoreMap = g.fileScoreMap,
                                          !.fileChunksMap = g.fileChunksMap]
                 IN  IF Len(g.keys) = 0
                     THEN Answer(Failure("No relevant document chunks found for your query.",
                                         <<>>), sofar, grouped)
                     ELSE LET best == bestFileId(g.keys, g.fileScoreMap)
                          IN  Ask(ChatCall(Join(g.fileChunksMap[best]), a.query),
                                  sofar, [grouped EXCEPT !.bestFileId = best])
      [] call.api = "chat.completions.create" ->
            IF outcome.type # "ok"
            THEN Answer(Failure("An error occurred while processing your question",
                                outcome.message), sofar, d)
            ELSE IF ~Has(response, "choices") \/ Len(response.choices) = 0
            THEN Answer(Failure("An error occurred while processing your question",
                                <<"Cannot read properties of undefined">>), sofar, d)
            ELSE LET message == response.choices[1].message
                     content == IF Has(message, "content")
                                THEN Trim(message.content) ELSE ""
                 IN  Answer(Success("Question answered",
                                    [query |-> a.query,
                                     answer |-> IF content = ""
                                                THEN "No answer generated"
                                                ELSE content,
                                     source_title |->
                                         BestFilename(d.searchResponse.data,
                                                      d.bestFileId),
                                     source_url |-> FileUrl(d.bestFileId),
                                     relevance_score |->
                                         d.fileScoreMap[d.bestFileId],
                                     success |-> TRUE]),
                            sofar, d)

DocResume(t, a, call, outcome, response, sofar, d) ==
    CASE t = "search" -> SearchResume(a, call, outcome, response, sofar, d)
      [] t = "fetch" -> FetchResume(a, call, outcome, response, sofar, d)
      [] t = "answer_question" ->
            AnswerResume(a, call, outcome, response, sofar, d)

----------------------------------------------------------------------------
(* Query string of bucket-data-list *)

\* Number.prototype.toString on the numbers in use
NumberToString(n) ==
    CASE n = 0 -> "0"
      [] n = 2 -> "2"
      [] n = 5 -> "5"

\* if (x): a number is truthy unless it is 0
Truthy(n) == n # 0

\* URLSearchParams.toString: name=value pairs joined by &
ParamsToString(params) ==
    [i \in 1..(IF Len(params) = 0 THEN 0 ELSE 4 * Len(params) - 1) |->
        CASE i % 4 = 1 -> params[(i + 3) \div 4][1]
          [] i % 4 = 2 -> "="
          [] i % 4 = 3 -> params[(i + 3) \div 4][2]
          [] OTHER -> "&"]

\* the params bucket-data-list appends, in order
ListParams(a) ==
    (IF Has(a, "limit") /\ Truthy(a.limit)
     THEN << <<"limit", NumberToString(a.limit)>> >> ELSE <<>>)
    \o (IF Has(a, "skip") /\ Truthy(a.skip)
        THEN << <<"skip", NumberToString(a.skip)>> >> ELSE <<>>)

\* `/bucket/${bucketId}/data` followed by `?${params.toString()}` when that
\* string is not empty
DataListEndpoint(a) ==
    <<"bucket", a.id, "data">>
        \o (IF Len(ParamsToString(ListParams(a))) > 0
            THEN <<"?">> \o ParamsToString(ListParams(a)) ELSE <<>>)

----------------------------------------------------------------------------
(* Parameter schemas *)

\* function-update with no required parameter
Required_FunctionNone(t) ==
    CASE t = "bucket-create" -> {"title", "description", "properties"}
      [] t \in UpdateTools \cup {"bucket-delete", "bucket-data-list"} -> {"id"}
      [] t = "passport-apikey-create" -> {"name"}
      [] t = "bucket-data-update" -> {"bucketId", "dataId", "data"}
      [] t = "passport-login" -> {"identifier", "password"}
      [] t \in {"search", "answer_question"} -> {"query"}
      [] t = "fetch" -> {"id"}
      [] OTHER -> {}

\* the parameters a tool's schema declares without .optional(); z.any()
\* accepts a missing value, so data of function-update is not among them
Required(t) ==
    CASE t = "bucket-create" -> {"title", "description", "properties"}
      [] t \in UpdateTools \cup {"bucket-delete", "function-update",
                             "bucket-data-list"} -> {"id"}
      [] t = "passport-apikey-create" -> {"name"}
      [] t = "bucket-data-update" -> {"bucketId", "dataId", "data"}
      [] t = "passport-login" -> {"identifier", "password"}
      [] t \in {"search", "answer_question"} -> {"query"}
      [] t = "fetch" -> {"id"}
      [] OTHER -> {}

\* the framework's check of the arguments against the tool's schema
Valid(t, a) == Required(t) \subseteq DOMAIN a

\* the structured rejection the framework returns for invalid arguments
Rejection ==
    [status |-> "rejected", text |-> "Invalid parameters", data |-> EmptyDoc,
     message |-> <<>>, about |-> ""]

----------------------------------------------------------------------------
(* Handlers: from the call of execute to the first await, and from the     *)
(* answer of an awaited request to the next await or the return            *)

\* `/bucket/${bucketId}/data/${dataId}`
RowEndpoint(bucketId, dataId) == <<"bucket", bucketId, "data", dataId>>

\* "/passport/identify"
LoginEndpoint == <<"passport", "identify">>

\* Start with bucket-delete reading the bucket instead of deleting it
Start_DeleteAsGet(t, a) ==
    CASE t = "help" ->
            Return(Success(SuccessText(t), EmptyDoc), <<>>, NoLocal)
      [] t = "bucket-create" ->
            Await(makeSpicaRequest("POST", Collection(t), bucketData(a)),
                  <<>>, NoLocal, Failure(FailText(t), <<>>))
      [] t \in UpdateTools ->
            Await(makeSpicaRequest("GET", Resource(t, a.id), EmptyDoc),
                  <<>>, NoLocal, Failure(FailText(t), <<>>))
      [] t = "passport-apikey-create" ->
            Await(makeSpicaRequest("POST", Collection(t), apikeyBody(a)),
                  <<>>, NoLocal, Failure(FailText(t), <<>>))
      [] t = "function-update" ->
            Await(makeSpicaRequest("PATCH", Resource(t, a.id), a.data),
                  <<>>, NoLocal, Failure(FailText(t), <<>>))
      [] t = "bucket-delete" ->
            Await(makeSpicaRequest("GET", Resource(t, a.id), EmptyDoc),
                  <<>>, NoLocal, Failure(FailText(t), <<>>))
      [] t = "bucket-data-list" ->
            Await(makeSpicaRequest("GET", DataListEndpoint(a), EmptyDoc),
                  <<>>, NoLocal, Failure(FailText(t), <<>>))
      [] t = "bucket-data-update" ->
            Await(makeSpicaRequest("PUT", RowEndpoint(a.bucketId, a.dataId),
                                   a.data),
                  <<>>, NoLocal, Failure(FailText(t), <<>>))
      [] t = "passport-login" ->
            Await(makeSpicaRequest("POST", LoginEndpoint,
                                   [identifier |-> a.identifier,
                                    password |-> a.password]),
                  <<>>, NoLocal, Failure(FailText(t), <<>>))
      [] t \in DocTools -> DocStart(t, a)

\* Start with bucket-data-update adding the row id to the body, as the
\* update tools do
Start_DataUpdateWithId(t, a) ==
    CASE t = "help" ->
            Return(Success(SuccessText(t), EmptyDoc), <<>>, NoLocal)
      [] t = "bucket-create" ->
            Await(makeSpicaRequest("POST", Collection(t), bucketData(a)),
                  <<>>, NoLocal, Failure(FailText(t), <<>>))
      [] t \in UpdateTools ->
            Await(makeSpicaRequest("GET", Resource(t, a.id), EmptyDoc),
                  <<>>, NoLocal, Failure(FailText(t), <<>>))
      [] t = "passport-apikey-create" ->
            Await(makeSpicaRequest("POST", Collection(t), apikeyBody(a)),
                  <<>>, NoLocal, Failure(FailText(t), <<>>))
      [] t = "function-update" ->
            Await(makeSpicaRequest("PATCH", Resource(t, a.id), a.data),
                  <<>>, NoLocal, Failure(FailText(t), <<>>))
      [] t = "bucket-delete" ->
            Await(makeSpicaRequest("DELETE", Resource(t, a.id), EmptyDoc),
                  <<>>, NoLocal, Failure(FailText(t), <<>>))
      [] t = "bucket-data-list" ->
            Await(makeSpicaRequest("GET", DataListEndpoint(a), EmptyDoc),
                  <<>>, NoLocal, Failure(FailText(t), <<>>))
      [] t = "bucket-data-update" ->
            Await(makeSpicaRequest("PUT", RowEndpoint(a.bucketId, a.dataId),
                                   Spread(a.data, Obj("_id", a.dataId))),
                  <<>>, NoLocal, Failure(FailText(t), <<>>))
      [] t = "passport-login" ->
            Await(makeSpicaRequest("POST", LoginEndpoint,
                                   [identifier |-> a.identifier,
                                    password |-> a.password]),
                  <<>>, NoLocal, Failure(FailText(t), <<>>))
      [] t \in DocTools -> DocStart(t, a)

\* execute of a tool up to its first await or its return
Start(t, a) ==
    CASE t = "help" ->
            Return(Success(SuccessText(t), EmptyDoc), <<>>, NoLocal)
      [] t = "bucket-create" ->
            Await(makeSpicaRequest("POST", Collection(t), bucketData(a)),
                  <<>>, NoLocal, Failure(FailText(t), <<>>))
      [] t \in UpdateTools ->
            Await(makeSpicaRequest("GET", Resource(t, a.id), EmptyDoc),
                  <<>>, NoLocal, Failure(FailText(t), <<>>))
      [] t = "passport-apikey-create" ->
            Await(makeSpicaRequest("POST", Collection(t), apikeyBody(a)),
                  <<>>, NoLocal, Failure(FailText(t), <<>>))
      [] t = "function-update" ->
            Await(makeSpicaRequest("PATCH", Resource(t, a.id), a.data),
                  <<>>, NoLocal, Failure(FailText(t), <<>>))
      [] t = "bucket-delete" ->
            Await(makeSpicaRequest("DELETE", Resource(t, a.id), EmptyDoc),
                  <<>>, NoLocal, Failure(FailText(t), <<>>))
      [] t = "bucket-data-list" ->
            Await(makeSpicaRequest("GET", DataListEndpoint(a), EmptyDoc),
                  <<>>, NoLocal, Failure(FailText(t), <<>>))
      [] t = "bucket-data-update" ->
            Await(makeSpicaRequest("PUT", RowEndpoint(a.bucketId, a.dataId),
                                   a.data),
                  <<>>, NoLocal, Failure(FailText(t), <<>>))
      [] t = "passport-login" ->
            Await(makeSpicaRequest("POST", LoginEndpoint,
                                   [identifier |-> a.identifier,
                                    password |-> a.password]),
                  <<>>, NoLocal, Failure(FailText(t), <<>>))
      [] t \in DocTools -> DocStart(t, a)

\* the for loop of passport-apikey-create standing before policies[k]
\* the attachments started together instead of one after the other
AttachFrom_AllAtOnce(a, k, created, sofar) ==
    IF k <= Len(a.policies)
    THEN [pc |-> "await",
          pending |-> makeSpicaRequest("PUT",
                          AttachEndpoint(created, a.policies[Len(a.policies)]),
                          EmptyDoc).request,
          calls |-> sofar \o
              [i \in 1..(Len(a.policies) - k + 1) |->
                  makeSpicaRequest("PUT",
                      AttachEndpoint(created, a.policies[k + i - 1]),
                      EmptyDoc).request],
          local |-> [NoLocal EXCEPT !.created = created,
                                    !.idx = Len(a.policies)],
          result |-> NoResult, awaited |-> NoCall, asked |-> <<>>,
          doc |-> NoDoc]
    ELSE Return(Success(SuccessText("passport-apikey-create"), created), sofar,
                [NoLocal EXCEPT !.created = created, !.idx = k])

AttachFrom(a, k, created, sofar) ==
    IF k <= Len(a.policies)
    THEN Await(makeSpicaRequest("PUT", AttachEndpoint(created, a.policies[k]),
                                EmptyDoc),
               sofar, [NoLocal EXCEPT !.created = created, !.idx = k],
               PartialFailure(a.policies[k], <<>>))
    ELSE Return(Success(SuccessText("passport-apikey-create"), created), sofar,
                [NoLocal EXCEPT !.created = created, !.idx = k])

\* Resume whose inner catch of passport-apikey-create goes on with the next
\* policy instead of returning
Resume_ContinueOnFailure(t, a, req, outcome, data, sofar, loc) ==
    IF outcome.type # "ok"
    THEN IF t = "passport-apikey-create" /\ req.verb = "put"
         THEN IF loc.idx < Len(a.policies)
              THEN AttachFrom(a, loc.idx + 1, loc.created, sofar)
              ELSE Return(PartialFailure(a.policies[loc.idx],
                                         NormalizeError(outcome)), sofar, loc)
         ELSE Return(Failure(FailText(t), NormalizeError(outcome)), sofar, loc)
    ELSE CASE t \in UpdateTools /\ req.verb = "get" ->
                Await(makeSpicaRequest("PUT", Resource(t, a.id),
                                       merged(t, data, a.update, a.id)),
                      sofar, [loc EXCEPT !.currentData = data],
                      Failure(FailText(t), <<>>))
           [] t = "passport-apikey-create" /\ req.verb = "post" ->
                IF HasPolicies(a)
                THEN AttachFrom(a, 1, data, sofar)
                ELSE Return(Success(SuccessText(t), data), sofar,
                            [loc EXCEPT !.created = data])
           [] t = "passport-apikey-create" /\ req.verb = "put" ->
                AttachFrom(a, loc.idx + 1, loc.created, sofar)
           [] OTHER ->
                Return(Success(SuccessText(t), data), sofar, loc)

\* Resume whose inner catch of passport-apikey-create deletes the created key
\* before it reports the partial failure
Resume_Rollback(t, a, req, outcome, data, sofar, loc) ==
    IF outcome.type # "ok"
    THEN IF t = "passport-apikey-create" /\ req.verb = "put"
         THEN Await(makeSpicaRequest("DELETE",
                                     <<"passport", "apikey", CreatedId(loc.created)>>,
                                     EmptyDoc),
                    sofar, loc,
                    PartialFailure(a.policies[loc.idx], NormalizeError(outcome)))
         ELSE IF t = "passport-apikey-create" /\ req.verb = "delete"
         THEN Return(PartialFailure(a.policies[loc.idx], NormalizeError(outcome)),
                     sofar, loc)
         ELSE Return(Failure(FailText(t), NormalizeError(outcome)), sofar, loc)
    ELSE CASE t \in UpdateTools /\ req.verb = "get" ->
                Await(makeSpicaRequest("PUT", Resource(t, a.id),
                                       merged(t, data, a.update, a.id)),
                      sofar, [loc EXCEPT !.currentData = data],
                      Failure(FailText(t), <<>>))
           [] t = "passport-apikey-create" /\ req.verb = "post" ->
                IF HasPolicies(a)
                THEN AttachFrom(a, 1, data, sofar)
                ELSE Return(Success(SuccessText(t), data), sofar,
                            [loc EXCEPT !.created = data])
           [] t = "passport-apikey-create" /\ req.verb = "put" ->
                AttachFrom(a, loc.idx + 1, loc.created, sofar)
           [] t = "passport-apikey-create" /\ req.verb = "delete" ->
                Return(PartialFailure(a.policies[loc.idx], <<"rolled back">>),
                       sofar, loc)
           [] t = "bucket-delete" ->
                Return(Success(SuccessText(t), EmptyDoc), sofar, loc)
           [] OTHER ->
                Return(Success(SuccessText(t), data), sofar, loc)

\* an update handler that writes the supplied fields although its GET failed
Resume_PutAfterFailedGet(t, a, req, outcome, data, sofar, loc) ==
    IF outcome.type # "ok"
    THEN IF t = "passport-apikey-create" /\ req.verb = "put"
         THEN Return(PartialFailure(a.policies[loc.idx], NormalizeError(outcome)),
                     sofar, loc)
         ELSE IF t \in UpdateTools /\ req.verb = "get"
         THEN Await(makeSpicaRequest("PUT", Resource(t, a.id),
                                     merged(t, EmptyDoc, a.update, a.id)),
                    sofar, loc, Failure(FailText(t), <<>>))
         ELSE Return(Failure(FailText(t), NormalizeError(outcome)), sofar, loc)
    ELSE CASE t \in UpdateTools /\ req.verb = "get" ->
                Await(makeSpicaRequest("PUT", Resource(t, a.id),
                                       merged(t, data, a.update, a.id)),
                      sofar, [loc EXCEPT !.currentData = data],
                      Failure(FailText(t), <<>>))
           [] t = "passport-apikey-create" /\ req.verb = "post" ->
                IF HasPolicies(a)
                THEN AttachFrom(a, 1, data, sofar)
                ELSE Return(Success(SuccessText(t), data), sofar,
                            [loc EXCEPT !.created = data])
           [] t = "passport-apikey-create" /\ req.verb = "put" ->
                AttachFrom(a, loc.idx + 1, loc.created, sofar)
           [] t = "bucket-delete" ->
                Return(Success(SuccessText(t), EmptyDoc), sofar, loc)
           [] OTHER ->
                Return(Success(SuccessText(t), data), sofar, loc)

\* the awaited request req was answered: outcome.type = "ok" with response.data
\* = data, or the adapter raised the normalized error
Resume(t, a, req, outcome, data, sofar, loc) ==
    IF outcome.type # "ok"
    THEN IF t = "passport-apikey-create" /\ req.verb = "put"
         THEN Return(PartialFailure(a.policies[loc.idx], NormalizeError(outcome)),
                     sofar, loc)
         ELSE Return(Failure(FailText(t), NormalizeError(outcome)), sofar, loc)
    ELSE CASE t \in UpdateTools /\ req.verb = "get" ->
                Await(makeSpicaRequest("PUT", Resource(t, a.id),
                                       merged(t, data, a.update, a.id)),
                      sofar, [loc EXCEPT !.currentData = data],
                      Failure(FailText(t), <<>>))
           [] t = "passport-apikey-create" /\ req.verb = "post" ->
                IF HasPolicies(a)
                THEN AttachFrom(a, 1, data, sofar)
                ELSE Return(Success(SuccessText(t), data), sofar,
                            [loc EXCEPT !.created = data])
           [] t = "passport-apikey-create" /\ req.verb = "put" ->
                AttachFrom(a, loc.idx + 1, loc.created, sofar)
           [] t = "bucket-delete" ->
                Return(Success(SuccessText(t), EmptyDoc), sofar, loc)
           [] OTHER ->
                Return(Success(SuccessText(t), data), sofar, loc)

----------------------------------------------------------------------------
(* The remote platform *)

\* a key of a stored document that no tool schema names
ExtraKey == "extra"

InitialDoc(t, id) ==
    Spread(Spread(Obj("_id", id),
                  Obj(CHOOSE k \in SchemaFields(t) : k # "description", "v0")),
           Obj(ExtraKey, "x0"))

InitialRemote ==
    [e \in { Resource(t, "i1") : t \in UpdateTools } |->
        InitialDoc(CHOOSE t \in UpdateTools : Resource(t, "i1") = e, "i1")]

IsAttachment(e) == Len(e) = 5

\* e addresses the rows of a bucket
IsDataList(e) == Len(e) >= 3 /\ e[1] = "bucket" /\ e[3] = "data"

\* the tokens the remote answers a login with
Tokens == [token |-> "t1"]

\* the remote can answer 2xx to req
CanServe(req, newId) ==
    CASE req.verb = "post" /\ req.endpoint = LoginEndpoint -> TRUE
      [] req.verb = "get" /\ IsDataList(req.endpoint) ->
            SubSeq(req.endpoint, 1, 2) \in DOMAIN remote
      [] req.verb = "get" -> req.endpoint \in DOMAIN remote
      [] req.verb = "put" /\ ~IsAttachment(req.endpoint) ->
            req.endpoint \in DOMAIN remote
      [] req.verb = "put" /\ IsAttachment(req.endpoint) ->
            SubSeq(req.endpoint, 1, 3) \in DOMAIN remote
      [] req.verb = "post" -> Append(req.endpoint, newId) \notin DOMAIN remote
      [] req.verb = "delete" -> req.endpoint \in DOMAIN remote
      [] OTHER -> FALSE

\* response.data of a 2xx answer
ResponseData(req, newId) ==
    CASE req.verb = "post" /\ req.endpoint = LoginEndpoint -> Tokens
      [] req.verb = "get" /\ IsDataList(req.endpoint) -> EmptyDoc
      [] req.verb = "get" -> remote[req.endpoint]
      [] req.verb = "put" /\ ~IsAttachment(req.endpoint) -> req.data
      [] req.verb = "put" /\ IsAttachment(req.endpoint) ->
            remote[SubSeq(req.endpoint, 1, 3)]
      [] req.verb = "post" -> Spread(req.data, Obj("_id", newId))
      [] OTHER -> EmptyDoc

Store(r, e, d) == [x \in (DOMAIN r) \cup {e} |-> IF x = e THEN d ELSE r[x]]

\* the documents of the remote after a 2xx answer: PUT replaces the whole
\* document, POST stores the body under a fresh id, DELETE removes it
RemoteAfter(req, newId) ==
    CASE req.verb = "post" /\ req.endpoint = LoginEndpoint -> remote
      [] req.verb = "put" /\ ~IsAttachment(req.endpoint) ->
            Store(remote, req.endpoint, req.data)
      [] req.verb = "put" /\ IsAttachment(req.endpoint) ->
            Store(remote, req.endpoint, EmptyDoc)
      [] req.verb = "post" ->
            Store(remote, Append(req.endpoint, newId), ResponseData(req, newId))
      [] req.verb = "delete" ->
            [x \in (DOMAIN remote) \ {req.endpoint} |-> remote[x]]
      [] OTHER -> remote

\* failures of an outbound call: a non-2xx answer with or without a body, or a
\* transport error
Failures ==
    { [type |-> "http", body |-> b, message |-> <<"Request failed with status code">>]
        : b \in ErrBodies \cup {""} }
    \cup { [type |-> "net", body |-> "", message |-> <<m>>] : m \in NetMessages }

OkOutcome == [type |-> "ok", body |-> "", message |-> <<>>]

NoOutcome == [type |-> "none", body |-> "", message |-> <<>>]

----------------------------------------------------------------------------
(* Arguments a caller can pass, after schema validation *)

Restrict(f, S) == [k \in S |-> f[k]]

UpdateArgs(t) ==
    { [id |-> i, update |-> u] : i \in Ids, u \in Objects(SchemaFields(t), Vals) }

BucketRequired == [title |-> "v1", description |-> "v1", properties |-> EmptyDoc]

BucketOptional ==
    [icon |-> "star", primary |-> "name", readOnly |-> TRUE, history |-> TRUE,
     acl |-> [read |-> "false==true", write |-> "false==true"]]

\* no optional field, any single one, or all of them
BucketCreateArgs ==
    { Spread(BucketRequired, Restrict(BucketOptional, S))
        : S \in { T \in SUBSET (DOMAIN BucketOptional) :
                    Cardinality(T) <= 1 \/ T = DOMAIN BucketOptional } }

PolicyLists == UNION { [1..n -> PolicyIds] : n \in 0..MaxPolicies }

ApikeyCreateArgs ==
    { Spread(Spread(Obj("name", "v1"), d), p) :
        d \in {EmptyDoc, Obj("description", "v1"), Obj("active", FALSE)},
        p \in {EmptyDoc} \cup { Obj("policies", l) : l \in PolicyLists } }

FunctionUpdateArgs == { [id |-> i, data |-> Obj("name", "v1")] : i \in Ids }

DeleteArgs == { [id |-> i] : i \in Ids }

Limits == {0, 5}

Skips == {0, 2}

\* a row of bucket i1, with a key that no tool argument names
StoredRow == [_id |-> "r1", title |-> "v0", extra |-> "x0"]

RowIds == {"r1", "r2"}

RowData == {EmptyDoc, Obj("title", "v1"), [title |-> "v1", note |-> "v1"]}

DataUpdateArgs ==
    { [bucketId |-> b, dataId |-> r, data |-> d] :
        b \in Ids, r \in RowIds, d \in RowData }

LoginArgs ==
    { [identifier |-> i, password |-> w] : i \in {"u1"}, w \in {"pw1", "pw2"} }

DataListArgs ==
    { Spread(Spread(Obj("id", i), l), k) :
        i \in Ids,
        l \in {EmptyDoc} \cup { Obj("limit", n) : n \in Limits },
        k \in {EmptyDoc} \cup { Obj("skip", n) : n \in Skips } }

\* arguments that lack a parameter of the tool
IncompleteArgs(t) ==
    CASE t = "bucket-create" ->
            { Without(BucketRequired, k) : k \in DOMAIN BucketRequired }
      [] t = "bucket-update" -> { [update |-> Obj("title", "v1")] }
      [] t = "passport-apikey-create" -> { Obj("description", "v1") }
      [] t = "function-update" -> { EmptyDoc, Obj("data", Obj("name", "v1")) }
      [] t = "answer_question" -> { EmptyDoc }
      [] OTHER -> { EmptyDoc }

IncompleteTools ==
    {"bucket-create", "bucket-update", "bucket-delete", "passport-apikey-create",
     "function-update", "answer_question"}

Queries == {"", " ", "q1"}

QueryArgs == { [query |-> q] : q \in Queries }

FileIds == {"fA", "fB", "fC"}

FetchArgs == { [id |-> i] : i \in FileIds \cup {""} }

----------------------------------------------------------------------------
(* The vector store provider *)

Scores == {2, 3}

Contents == { <<[text |-> "y"]>>, <<[text |-> ""], [text |-> "z"]>> }

\* search results carrying every field (each file with each score, and with
\* each content), and search results with one field missing
Items ==
    { [file_id |-> f, score |-> s, content |-> <<[text |-> "y"]>>] :
        f \in FileIds, s \in Scores }
    \cup { [file_id |-> f, score |-> 2, content |-> c] :
             f \in FileIds, c \in Contents }
    \cup { Without([file_id |-> "fA", score |-> 2, content |-> <<[text |-> "y"]>>], k) :
             k \in {"score", "content"} }
    \cup { [score |-> 3, content |-> <<[text |-> "y"]>>] }

\* every answer of the semantic search with at most MaxResults results
SearchData == UNION { [1..n -> Items] : n \in 0..MaxResults }

\* a few answers of the semantic search: none, one without file id, one file,
\* two files of which the second has the higher total
SampleData ==
    { <<>>,
      <<[score |-> 3, content |-> <<[text |-> "y"]>>]>>,
      <<[file_id |-> "fA", score |-> 3, content |-> <<[text |-> "y"]>>]>>,
      <<[file_id |-> "fA", score |-> 3, content |-> <<[text |-> "y"]>>],
        [file_id |-> "fB", score |-> 2, content |-> <<[text |-> ""], [text |-> "z"]>>],
        [file_id |-> "fB", score |-> 2, content |-> <<[text |-> "y"]>>]>> }

FileLists == { <<>>, <<[id |-> "fA"]>>, <<[id |-> "fA"], [id |-> "fB"]>> }

\* response objects the provider can return for call; D is the set of result
\* lists of the semantic search
Responses(call, D) ==
    CASE call.api = "vectorStores.search" ->
            {EmptyDoc} \cup { Obj("data", s) : s \in D }
      [] call.api = "vectorStores.files.list" ->
            {EmptyDoc} \cup { Obj("data", l) : l \in FileLists }
      [] call.api = "files.retrieve" ->
            {EmptyDoc, Obj("filename", "guide.md")}
      [] call.api = "vectorStores.files.content" ->
            {EmptyDoc} \cup { Obj("data", c) : c \in Contents }
      [] call.api = "chat.completions.create" ->
            { Obj("choices", <<>>),
              Obj("choices", <<[message |-> EmptyDoc]>>),
              Obj("choices", <<[message |-> Obj("content", " ")]>>),
              Obj("choices", <<[message |-> Obj("content", "a1")]>>) }
      [] OTHER -> {}

ProviderFailures == { [type |-> "error", message |-> <<m>>] : m \in ProviderMessages }

----------------------------------------------------------------------------
(* Actions *)

\* The environment the process starts in.  The adapter reads SPICA_URL and
\* SPICA_API_KEY, the documentation tools read OPENAI_API_KEY and
\* VECTOR_STORE_ID, and no tool reads both pairs: each deployment leaves out
\* the same settings of both pairs.
Deployments ==
    { [spicaUrl |-> u, apiKey |-> k, openaiClient |-> (u # ""),
       VECTOR_STORE_ID |-> IF k = "" THEN "" ELSE "vs_1"] :
        u \in {"", "http://spica"}, k \in {"", "KEY"} }

----------------------------------------------------------------------------
(* Registration: each group adds its tools in source order, and bootstrap
   calls the groups one after the other *)

BucketTools ==
    <<"bucket-list", "bucket-create", "bucket-update", "bucket-delete">>

BucketDataTools ==
    <<"bucket-data-list", "bucket-data-create", "bucket-data-update",
      "bucket-data-delete">>

FunctionTools ==
    <<"function-list", "function-show", "function-create", "function-update",
      "function-delete", "function-get-code", "function-update-code",
      "function-list-dependencies", "function-add-dependencies",
      "function-delete-dependency", "function-logs">>

PassportIdentityTools ==
    <<"passport-identity-list", "passport-identity-get",
      "passport-identity-create", "passport-identity-update",
      "passport-identity-delete", "passport-identity-verify",
      "passport-login">>

PassportApikeyTools ==
    <<"passport-apikey-list", "passport-apikey-get", "passport-apikey-create",
      "passport-apikey-update", "passport-apikey-delete",
      "passport-apikey-assign-policy", "passport-apikey-remove-policy">>

PassportPolicyTools ==
    <<"passport-policy-list", "passport-policy-get", "passport-policy-create",
      "passport-policy-update", "passport-policy-delete">>

DeepResearchTools == <<"search", "fetch", "answer_question">>

\* a helper group that registers a name of the bucket group again
HelperTools_Duplicate == <<"help", "bucket-list">>

HelperTools == <<"help", "workflow-guide">>

\* server.addTool appends; the groups are registered in this order
Bootstrap ==
    BucketTools \o BucketDataTools \o FunctionTools \o PassportIdentityTools
        \o PassportApikeyTools \o PassportPolicyTools \o DeepResearchTools
        \o HelperTools

\* the register calls of bootstrap, in the order they are made
Groups ==
    <<BucketTools, BucketDataTools, FunctionTools, PassportIdentityTools,
      PassportApikeyTools, PassportPolicyTools, DeepResearchTools, HelperTools>>

RECURSIVE RegisteredUpTo(_)
\* the registry when the first n register calls have returned
RegisteredUpTo(n) ==
    IF n = 0 THEN <<>> ELSE RegisteredUpTo(n - 1) \o Groups[n]

\* nothing invoked yet
Fresh ==
    /\ logged = FALSE
    /\ previous = EmptyDoc
    /\ tool = "none"
    /\ args = EmptyDoc
    /\ pending = NoRequest
    /\ calls = <<>>
    /\ local = NoLocal
    /\ result = NoResult
    /\ served = 0
    /\ writes = 0
    /\ stale = <<>>
    /\ failed = NoRequest
    /\ awaited = NoCall
    /\ asked = <<>>
    /\ doc = NoDoc
    /\ afterFailure = FALSE
    /\ sameAsBefore = FALSE
    /\ lastOutcome = NoOutcome
    /\ attempts = 0

\* nothing invoked yet, against the initial documents of the remote
Quiet ==
    /\ remote = InitialRemote
    /\ Fresh

\* bootstrap has run: every group registered, transport started
Idle ==
    /\ Quiet
    /\ pc = "idle"
    /\ registry = Bootstrap

Init ==
    /\ \E e \in Deployments :
          /\ config = [spicaUrl |-> e.spicaUrl, apiKey |-> e.apiKey]
          /\ openaiClient = e.openaiClient
          /\ VECTOR_STORE_ID = e.VECTOR_STORE_ID
    /\ configFile = EmptyDoc
    /\ Idle

\* the documentation tools alone, under every setting of their environment
DocInit ==
    /\ config = [spicaUrl |-> "http://spica", apiKey |-> "KEY"]
    /\ openaiClient \in BOOLEAN
    /\ VECTOR_STORE_ID \in {"", "vs_1"}
    /\ configFile = EmptyDoc
    /\ Idle

\* the process right after the configuration is built: nothing registered,
\* transport not started
BootInit ==
    /\ \E e \in Deployments :
          /\ config = [spicaUrl |-> e.spicaUrl, apiKey |-> e.apiKey]
          /\ openaiClient = e.openaiClient
          /\ VECTOR_STORE_ID = e.VECTOR_STORE_ID
    /\ configFile = EmptyDoc
    /\ Quiet
    /\ pc = "boot"
    /\ registry = <<>>

\* the server after bootstrap, the remote holding a row in bucket i1
RowInit ==
    /\ \E e \in Deployments :
          /\ config = [spicaUrl |-> e.spicaUrl, apiKey |-> e.apiKey]
          /\ openaiClient = e.openaiClient
          /\ VECTOR_STORE_ID = e.VECTOR_STORE_ID
    /\ configFile = EmptyDoc
    /\ remote = Store(InitialRemote, RowEndpoint("i1", "r1"), StoredRow)
    /\ Fresh
    /\ pc = "idle"
    /\ registry = Bootstrap

\* values a config.json can give
ConfigFiles ==
    { EmptyDoc,
      [spicaUrl |-> "http://file"],
      [spicaUrl |-> "http://file", apiKey |-> "FILEKEY"] }

\* the adapter's tools under every environment, with and without config.json
ConfigInit ==
    /\ config \in { [spicaUrl |-> u, apiKey |-> k] :
                      u \in {"", "http://spica"}, k \in {"", "KEY"} }
    /\ configFile \in ConfigFiles
    /\ openaiClient = TRUE
    /\ VECTOR_STORE_ID = "vs_1"
    /\ Idle

\* a config.json whose text JSON.parse rejects
Malformed == [raw |-> "{"]

\* the monolithic server before it looks at config.json: config holds the
\* environment's values
LoaderInit ==
    /\ config \in { [spicaUrl |-> u, apiKey |-> k] :
                      u \in {"", "http://spica"}, k \in {"", "KEY"} }
    /\ configFile \in ConfigFiles \cup {Malformed}
    /\ openaiClient = TRUE
    /\ VECTOR_STORE_ID = "vs_1"
    /\ Quiet
    /\ pc = "load"
    /\ registry = Bootstrap

Apply(h) ==
    /\ pc' = h.pc
    /\ pending' = h.pending
    /\ calls' = h.calls
    /\ local' = h.local
    /\ result' = h.result
    /\ awaited' = h.awaited
    /\ asked' = h.asked
    /\ doc' = h.doc

\* the transport hands one validated invocation to the tool's execute
\* what the update that has just returned set, when t with a is an update of
\* the same resource that supplies other fields
PreviousUpdate(t, a) ==
    IF /\ pc = "done" /\ result.status = "ok"
       /\ tool \in UpdateTools /\ tool = t /\ args.id = a.id
       /\ DOMAIN args.update \cap DOMAIN a.update = {}
    THEN args.update
    ELSE EmptyDoc

Invoke(t, a) ==
    /\ pc \in {"idle", "done"}
    /\ served < MaxInvocations
    /\ Valid(t, a)
    /\ tool' = t
    /\ args' = a
    /\ served' = served + 1
    /\ stale' = <<>>
    /\ failed' = NoRequest
    /\ afterFailure' = (pc = "done" /\ result.status \in {"fail", "partial"})
    /\ sameAsBefore' = (pc = "done" /\ tool = t /\ args = a)
    /\ lastOutcome' = NoOutcome
    /\ attempts' = 0
    /\ Apply(Start(t, a))
    /\ previous' = PreviousUpdate(t, a)
    /\ UNCHANGED <<config, configFile, logged, registry, remote, writes,
                   openaiClient, VECTOR_STORE_ID>>

\* the framework turns down an invocation whose arguments fail the schema:
\* execute is not called
Reject(t, a) ==
    /\ pc \in {"idle", "done"}
    /\ served < MaxInvocations
    /\ ~Valid(t, a)
    /\ tool' = t
    /\ args' = a
    /\ served' = served + 1
    /\ stale' = <<>>
    /\ failed' = NoRequest
    /\ afterFailure' = (pc = "done" /\ result.status \in {"fail", "partial"})
    /\ sameAsBefore' = FALSE
    /\ lastOutcome' = NoOutcome
    /\ attempts' = 0
    /\ Apply([Return(Rejection, <<>>, NoLocal) EXCEPT !.pc = "idle"])
    /\ previous' = EmptyDoc
    /\ UNCHANGED <<config, configFile, logged, registry, remote, writes,
                   openaiClient, VECTOR_STORE_ID>>

Help == Invoke("help", EmptyDoc)

BucketCreate == \E a \in BucketCreateArgs : Invoke("bucket-create", a)

BucketUpdate == \E a \in UpdateArgs("bucket-update") : Invoke("bucket-update", a)

BucketDelete == \E a \in DeleteArgs : Invoke("bucket-delete", a)

IdentityUpdate ==
    \E a \in UpdateArgs("passport-identity-update") :
        Invoke("passport-identity-update", a)

ApikeyUpdate ==
    \E a \in UpdateArgs("passport-apikey-update") :
        Invoke("passport-apikey-update", a)

PolicyUpdate ==
    \E a \in UpdateArgs("passport-policy-update") :
        Invoke("passport-policy-update", a)

ApikeyCreate == \E a \in ApikeyCreateArgs : Invoke("passport-apikey-create", a)

FunctionUpdate == \E a \in FunctionUpdateArgs : Invoke("function-update", a)

BucketDataList == \E a \in DataListArgs : Invoke("bucket-data-list", a)

BucketDataUpdate == \E a \in DataUpdateArgs : Invoke("bucket-data-update", a)

PassportLogin == \E a \in LoginArgs : Invoke("passport-login", a)

Search == \E a \in QueryArgs : Invoke("search", a)

Fetch == \E a \in FetchArgs : Invoke("fetch", a)

AnswerQuestion == \E a \in QueryArgs : Invoke("answer_question", a)

\* an invocation whose arguments lack a parameter reaches the framework
Incomplete ==
    \E t \in IncompleteTools : \E a \in IncompleteArgs(t) :
        Reject(t, a) \/ Invoke(t, a)

\* the remote answers the request in flight with 2xx
RespondOk ==
    /\ pc = "await"
    /\ \E newId \in Ids :
          /\ CanServe(pending, newId)
          /\ remote' = RemoteAfter(pending, newId)
          /\ Apply(Resume(tool, args, pending, OkOutcome,
                          ResponseData(pending, newId), calls, local))
    /\ lastOutcome' = OkOutcome
    /\ attempts' = attempts + 1
    /\ UNCHANGED <<config, configFile, logged, previous, registry, tool, args, served, writes, stale, failed,
                   openaiClient, VECTOR_STORE_ID, afterFailure, sameAsBefore>>

\* RespondError with the adapter sending the failed request again
RespondError_Retry ==
    /\ pc = "await"
    /\ attempts' = attempts + 1
    /\ UNCHANGED <<config, configFile, logged, previous, registry, remote, tool, args, pc, pending, calls, local, result,
                   served, writes, stale, failed, openaiClient, VECTOR_STORE_ID,
                   awaited, asked, doc, afterFailure, sameAsBefore, lastOutcome>>

\* the request in flight fails: non-2xx answer or transport error
RespondError ==
    /\ pc = "await"
    /\ \E o \in Failures :
          /\ Apply(Resume(tool, args, pending, o, EmptyDoc, calls, local))
          /\ lastOutcome' = o
    /\ failed' = pending
    /\ attempts' = attempts + 1
    /\ UNCHANGED <<config, configFile, logged, previous, registry, remote, tool, args, served, writes, stale,
                   openaiClient, VECTOR_STORE_ID, afterFailure, sameAsBefore>>

\* process.env.X || fileConfig.x || ""
EnvOrFile(fromEnv, file, key) ==
    IF fromEnv # "" THEN fromEnv
    ELSE IF Has(file, key) THEN file[key] ELSE ""

\* a loader that falls back to the empty configuration when parsing fails
LoadedConfig_EmptyOnFailure(env, file) ==
    IF file = Malformed
    THEN [config |-> [spicaUrl |-> "", apiKey |-> ""], logged |-> TRUE]
    ELSE [config |-> [spicaUrl |-> EnvOrFile(env.spicaUrl, file, "spicaUrl"),
                      apiKey |-> EnvOrFile(env.apiKey, file, "apiKey")],
          logged |-> FALSE]

\* the try block that loads config.json: env holds the environment's values,
\* already assigned to config; a parse error leaves them and is logged
LoadedConfig(env, file) ==
    IF file = Malformed
    THEN [config |-> env, logged |-> TRUE]
    ELSE [config |-> [spicaUrl |-> EnvOrFile(env.spicaUrl, file, "spicaUrl"),
                      apiKey |-> EnvOrFile(env.apiKey, file, "apiKey")],
          logged |-> FALSE]

\* startup of the monolithic server passes the loading of config.json
LoadConfig ==
    /\ pc = "load"
    /\ config' = LoadedConfig(config, configFile).config
    /\ logged' = LoadedConfig(config, configFile).logged
    /\ pc' = "idle"
    /\ UNCHANGED <<configFile, previous, registry, remote, tool, args, pending, calls,
                   local, result, served, writes, stale, failed, openaiClient,
                   VECTOR_STORE_ID, awaited, asked, doc, afterFailure,
                   sameAsBefore, lastOutcome, attempts>>

\* the next register call of bootstrap adds its group to the registry
RegisterNext ==
    /\ pc = "boot"
    /\ \E n \in 0..(Len(Groups) - 1) :
          /\ registry = RegisteredUpTo(n)
          /\ registry' = RegisteredUpTo(n + 1)
    /\ UNCHANGED <<config, configFile, logged, previous, remote, tool, args, pc, pending, calls,
                   local, result, served, writes, stale, failed, openaiClient,
                   VECTOR_STORE_ID, awaited, asked, doc, afterFailure,
                   sameAsBefore, lastOutcome, attempts>>

\* a transport started without waiting for the register calls
StartTransport_Early ==
    /\ pc = "boot"
    /\ pc' = "idle"
    /\ UNCHANGED <<config, configFile, logged, previous, registry, remote, tool, args, pending,
                   calls, local, result, served, writes, stale, failed,
                   openaiClient, VECTOR_STORE_ID, awaited, asked, doc,
                   afterFailure, sameAsBefore, lastOutcome, attempts>>

\* server.start, the statement after the last register call
StartTransport ==
    /\ pc = "boot"
    /\ registry = RegisteredUpTo(Len(Groups))
    /\ pc' = "idle"
    /\ UNCHANGED <<config, configFile, logged, previous, registry, remote, tool, args, pending,
                   calls, local, result, served, writes, stale, failed,
                   openaiClient, VECTOR_STORE_ID, awaited, asked, doc,
                   afterFailure, sameAsBefore, lastOutcome, attempts>>

\* method names a caller of the adapter can pass
Methods ==
    {"GET", "get", "Get", "POST", "post", "Post", "PUT", "put", "Put",
     "DELETE", "delete", "Delete", "PATCH", "patch", "Patch", "HEAD"}

DirectEndpoints == {<<"bucket">>, <<"bucket", "i1">>}

\* makeSpicaRequest called on its own, up to its await
Request(method, endpoint, data) ==
    /\ pc \in {"idle", "done"}
    /\ served < MaxInvocations
    /\ tool' = "none"
    /\ args' = [method |-> method, endpoint |-> endpoint]
    /\ served' = served + 1
    /\ stale' = <<>>
    /\ failed' = NoRequest
    /\ afterFailure' = (pc = "done" /\ result.status \in {"fail", "partial"})
    /\ sameAsBefore' = FALSE
    /\ lastOutcome' = NoOutcome
    /\ attempts' = 0
    /\ LET r == makeSpicaRequest(method, endpoint, data)
       IN  Apply([Await(r, <<>>, NoLocal, Raised(<<>>))
                    EXCEPT !.pc = IF r.thrown THEN "done" ELSE "direct"])
    /\ previous' = EmptyDoc
    /\ UNCHANGED <<config, configFile, logged, registry, remote, writes,
                   openaiClient, VECTOR_STORE_ID>>

DirectRequest ==
    \E method \in Methods : \E endpoint \in DirectEndpoints :
        Request(method, endpoint, Obj("title", "v1"))

\* the remote answers a request made on its own: the adapter returns it
DirectOk ==
    /\ pc = "direct"
    /\ \E newId \in Ids :
          /\ CanServe(pending, newId)
          /\ remote' = RemoteAfter(pending, newId)
          /\ Apply(Return(Returned(ResponseData(pending, newId)), calls, local))
    /\ lastOutcome' = OkOutcome
    /\ attempts' = attempts + 1
    /\ UNCHANGED <<config, configFile, logged, previous, registry, tool, args, served, writes, stale, failed,
                   openaiClient, VECTOR_STORE_ID, afterFailure, sameAsBefore>>

\* a request made on its own fails: the catch of the adapter raises
DirectError ==
    /\ pc = "direct"
    /\ \E o \in Failures :
          /\ Apply(Return(Raised(NormalizeError(o)), calls, local))
          /\ lastOutcome' = o
    /\ failed' = pending
    /\ attempts' = attempts + 1
    /\ UNCHANGED <<config, configFile, logged, previous, registry, remote, tool, args, served, writes, stale,
                   openaiClient, VECTOR_STORE_ID, afterFailure, sameAsBefore>>

\* the provider answers the call in flight
ProviderOk(D) ==
    /\ pc = "ask"
    /\ \E response \in Responses(awaited, D) :
          Apply(DocResume(tool, args, awaited, OkOutcome, response, asked, doc))
    /\ UNCHANGED <<config, configFile, logged, previous, registry, remote, tool, args, served, writes, stale, failed,
                   openaiClient, VECTOR_STORE_ID, afterFailure, sameAsBefore,
                   lastOutcome, attempts>>

\* the call in flight is rejected by the provider client
ProviderError ==
    /\ pc = "ask"
    /\ \E o \in ProviderFailures :
          Apply(DocResume(tool, args, awaited, o, EmptyDoc, asked, doc))
    /\ UNCHANGED <<config, configFile, logged, previous, registry, remote, tool, args, served, writes, stale, failed,
                   openaiClient, VECTOR_STORE_ID, afterFailure, sameAsBefore,
                   lastOutcome, attempts>>

\* keys another client of the remote sets or removes in the document at e
OtherKeys(e) ==
    {"_id", ExtraKey}
        \cup UNION { SchemaFields(t) \ {"description", "password"} :
                       t \in { u \in UpdateTools : Collection(u) = SubSeq(e, 1, Len(e) - 1) } }

\* another client of the remote platform changes the document that the
\* request in flight addresses (a write to any other document is not seen by
\* the running handler and is the same as that write made during the next
\* request to it)
OtherWriter ==
    /\ writes < MaxWrites
    /\ pc = "await"
    /\ \E e \in (DOMAIN remote) \cap {pending.endpoint} :
          /\ ~IsAttachment(e)
          /\ \E k \in OtherKeys(e) :
                \E d \in { Without(remote[e], k) }
                         \cup { Spread(remote[e], Obj(k, v)) :
                                  v \in IF k = "_id" THEN Ids ELSE OtherVals } :
                   /\ d # remote[e]
                   /\ remote' = Store(remote, e, d)
                   /\ stale' = IF tool \in UpdateTools /\ pending.verb = "put"
                               THEN <<d>> ELSE stale
    /\ writes' = writes + 1
    /\ UNCHANGED <<config, configFile, logged, previous, registry, tool, args, pc, pending, calls, local, result, served,
                   failed, openaiClient, VECTOR_STORE_ID, awaited, asked, doc,
                   afterFailure, sameAsBefore, lastOutcome, attempts>>

Next ==
    \/ Help
    \/ BucketCreate
    \/ BucketUpdate
    \/ BucketDelete
    \/ IdentityUpdate
    \/ ApikeyUpdate
    \/ PolicyUpdate
    \/ ApikeyCreate
    \/ FunctionUpdate
    \/ BucketDataList
    \/ Search
    \/ Fetch
    \/ AnswerQuestion
    \/ Incomplete
    \/ RespondOk
    \/ RespondError
    \/ ProviderOk(SampleData)
    \/ ProviderError

Spec == Init /\ [][Next]_vars

\* the read-then-write update tools next to another client of the remote
UpdateNext ==
    \/ BucketUpdate
    \/ IdentityUpdate
    \/ ApikeyUpdate
    \/ PolicyUpdate
    \/ RespondOk
    \/ RespondError
    \/ OtherWriter

UpdateSpec == Init /\ [][UpdateNext]_vars

\* tools that reach the remote through the adapter
ConfigNext ==
    \/ BucketDelete
    \/ BucketDataList
    \/ FunctionUpdate
    \/ RespondOk
    \/ RespondError

ConfigSpec == ConfigInit /\ [][ConfigNext]_vars

\* the adapter called with every spelling of a method, and two tools over it
AdapterNext ==
    \/ DirectRequest
    \/ DirectOk
    \/ DirectError
    \/ FunctionUpdate
    \/ BucketDelete
    \/ RespondOk
    \/ RespondError

AdapterSpec == Init /\ [][AdapterNext]_vars

\* the monolithic server: configuration loading, then invocations
LoaderNext ==
    \/ LoadConfig
    \/ BucketDelete
    \/ BucketDataList
    \/ RespondOk
    \/ RespondError

LoaderSpec == LoaderInit /\ [][LoaderNext]_vars

\* the tools that make a single request with the body they were given
RowNext ==
    \/ BucketDataUpdate
    \/ PassportLogin
    \/ RespondOk
    \/ RespondError

RowSpec == RowInit /\ [][RowNext]_vars

\* bootstrap followed by invocations
BootNext ==
    \/ RegisterNext
    \/ StartTransport
    \/ Help
    \/ BucketCreate
    \/ BucketDelete
    \/ RespondOk
    \/ RespondError

BootSpec == BootInit /\ [][BootNext]_vars

\* handlers that make several calls, with every call in flight answered
SequentialNext ==
    \/ ApikeyCreate
    \/ BucketUpdate
    \/ Search
    \/ RespondOk
    \/ RespondError
    \/ ProviderOk(SampleData)
    \/ ProviderError

\* a call handed to axios or to the provider client returns or fails
SequentialSpec ==
    /\ Init
    /\ [][SequentialNext]_vars
    /\ WF_vars(RespondOk \/ RespondError)
    /\ WF_vars(ProviderOk(SampleData) \/ ProviderError)

\* the documentation tools against every answer of the provider
DocNext ==
    \/ Search
    \/ Fetch
    \/ AnswerQuestion
    \/ ProviderOk(SearchData)
    \/ ProviderError

DocSpec == DocInit /\ [][DocNext]_vars

----------------------------------------------------------------------------
(* Properties *)

ConfigOK == config.spicaUrl # "" /\ config.apiKey # ""

\* an update handler has issued its PUT: calls = << GET, PUT >>
PutIssued == tool \in UpdateTools /\ Len(calls) = 2

\* C1 as stated: in every update tool, after a successful GET, the PUT body is
\* the fetched object overwritten by the supplied fields: no fetched key is
\* removed, every fetched key that was not supplied keeps its fetched value,
\* every supplied key carries the supplied value.
C1_MergeKeepsAllFetched ==
    PutIssued =>
        LET body == calls[2].data
            cur == local.currentData
            upd == args.update
        IN /\ DOMAIN cur \subseteq DOMAIN body
           /\ \A k \in (DOMAIN cur) \ (DOMAIN upd) : body[k] = cur[k]
           /\ \A k \in DOMAIN upd : body[k] = upd[k]

\* C1 amended: in every update tool, after a successful GET, exactly one PUT
\* is issued, to the endpoint of the GET; no fetched key is removed, every
\* fetched key other than _id that was not supplied keeps its fetched value,
\* every supplied key carries the supplied value, no other key is added, and
\* _id is the id argument in bucket-update and passport-identity-update and
\* the fetched _id in the other two.
C1_MergeKeepsFetchedExceptId ==
    /\ tool \in UpdateTools => Len(calls) <= 2
    /\ PutIssued =>
        LET body == calls[2].data
            cur == local.currentData
            upd == args.update
        IN /\ calls[1].verb = "get" /\ calls[2].verb = "put"
           /\ calls[2].endpoint = calls[1].endpoint
           /\ DOMAIN cur \subseteq DOMAIN body
           /\ DOMAIN body \subseteq (DOMAIN cur) \cup (DOMAIN upd) \cup {"_id"}
           /\ \A k \in (DOMAIN cur) \ ((DOMAIN upd) \cup {"_id"}) : body[k] = cur[k]
           /\ \A k \in DOMAIN upd : body[k] = upd[k]
           /\ "_id" \in DOMAIN body =>
                body["_id"] = IF tool \in {"bucket-update", "passport-identity-update"}
                              THEN args.id ELSE cur["_id"]

\* C1 witness: a PUT was issued for an update that overwrites a fetched key
\* and leaves another fetched key alone
C1_Witness ==
    /\ PutIssued
    /\ \E k \in (DOMAIN args.update) \cap (DOMAIN local.currentData) :
          local.currentData[k] # args.update[k]
    /\ \E k \in (DOMAIN local.currentData) \ (DOMAIN args.update) : k # "_id"

\* C2 as stated: the PUT body of every update tool contains _id equal to the
\* id argument, whatever the fetched object holds.
C2_IdReasserted ==
    PutIssued =>
        /\ "_id" \in DOMAIN calls[2].data
        /\ calls[2].data["_id"] = args.id

C4_PatchIssued ==
    (tool = "function-update" /\ ConfigOK) =>
        /\ Len(calls) = 1
        /\ calls[1].verb = "patch"
        /\ calls[1].endpoint = <<"function", args.id>>
        /\ calls[1].data = args.data

\* C5: when another client wrote the resource after an update tool's GET and
\* the remote then answers the PUT with 2xx, the stored document is the merge
\* of the stale fetched object (fetched keys restored, supplied keys set, no key
\* the other client added), and the handler reports success.
C5_StaleMergeOverwrites ==
    [][ ( /\ tool \in UpdateTools
          /\ pc = "await" /\ pending.verb = "put"
          /\ stale # <<>>
          /\ pc' = "done" /\ failed' = NoRequest )
        => ( /\ result'.status = "ok"
             /\ LET stored == remote'[pending.endpoint]
                    cur == local.currentData
                    upd == args.update
                IN /\ DOMAIN stored \subseteq (DOMAIN cur) \cup (DOMAIN upd) \cup {"_id"}
                   /\ \A k \in (DOMAIN cur) \ ((DOMAIN upd) \cup {"_id"}) :
                         k \in DOMAIN stored /\ stored[k] = cur[k]
                   /\ \A k \in DOMAIN upd : stored[k] = upd[k] ) ]_vars

\* C5 witness: an update returned success although another client had written
\* the resource between its GET and its PUT, and that client's document is gone
C5_Witness ==
    /\ tool \in UpdateTools /\ pc = "done"
    /\ result.status = "ok"
    /\ stale # <<>>
    /\ remote[Resource(tool, args.id)] # stale[1]

\* the defaults bucket-create documents
BucketDefaults ==
    [icon |-> "view_stream", primary |-> "title", readOnly |-> FALSE,
     history |-> FALSE, acl |-> [read |-> "true==true", write |-> "true==true"]]

\* C8: the POST body of bucket-create carries the supplied title, description
\* and properties, order = 0, and for each optional field the supplied value
\* when there is one and the documented default otherwise.
C8_BucketCreateDefaults ==
    (tool = "bucket-create" /\ Len(calls) = 1) =>
        LET body == calls[1].data
        IN /\ calls[1].verb = "post" /\ calls[1].endpoint = <<"bucket">>
           /\ DOMAIN body = (DOMAIN BucketDefaults)
                              \cup {"title", "description", "properties", "order"}
           /\ body.order = 0
           /\ body.title = args.title
           /\ body.description = args.description
           /\ body.properties = args.properties
           /\ \A k \in DOMAIN BucketDefaults :
                 body[k] = IF k \in DOMAIN args THEN args[k] ELSE BucketDefaults[k]

\* C8 witness: bucket-create was called with the three required fields only
C8_Witness ==
    /\ tool = "bucket-create" /\ Len(calls) = 1
    /\ DOMAIN args = {"title", "description", "properties"}

\* tools whose handler calls makeSpicaRequest
AdapterTools == UpdateTools \cup {"bucket-create", "bucket-delete",
                                  "passport-apikey-create", "function-update",
                                  "bucket-data-list"}

\* C9: with an empty base URL or credential the server starts and takes
\* invocations; every handler that calls the adapter ends at once with the
\* failure text carrying the configuration error and no request is put on
\* the wire (arguments refused by the schema never reach a handler).
C9_ConfigErrorWithoutCall ==
    (~ConfigOK) =>
        /\ tool = "none" => (pc = "idle" /\ result = NoResult)
        /\ (tool \in AdapterTools /\ result # Rejection) =>
              /\ pc = "done"
              /\ calls = <<>> /\ pending = NoRequest /\ failed = NoRequest
              /\ result.status = "fail"
              /\ result.text = FailText(tool)
              /\ result.message = ConfigError

\* C9 witness: only the credential is missing, and a second invocation was
\* answered with the configuration error as well
C9_Witness ==
    /\ config.spicaUrl # "" /\ config.apiKey = ""
    /\ served = 2 /\ tool \in AdapterTools
    /\ result.status = "fail"

\* the search results of data that carry a file id f
FileOf(item) == IF Has(item, "file_id") THEN item.file_id ELSE ""

ChunksOfFile(data, f) == SelectSeq(data, LAMBDA item : FileOf(item) = f)

FilesOf(data) == { FileOf(data[i]) : i \in 1..Len(data) } \ {""}

RECURSIVE SumScores(_)
SumScores(items) ==
    IF Len(items) = 0 THEN 0
    ELSE (IF Has(Head(items), "score") THEN Head(items).score ELSE 0)
         + SumScores(Tail(items))

TotalOf(data, f) == SumScores(ChunksOfFile(data, f))

RECURSIVE AllTexts(_)
AllTexts(items) ==
    IF Len(items) = 0 THEN <<>> ELSE Texts(Head(items)) \o AllTexts(Tail(items))

\* position in data of the first result of file f
FirstIndex(data, f) ==
    CHOOSE i \in 1..Len(data) :
        FileOf(data[i]) = f /\ \A j \in 1..(i - 1) : FileOf(data[j]) # f

\* answer_question has issued its chat-completion call
ChatAsked ==
    /\ tool = "answer_question"
    /\ Len(asked) = 2
    /\ asked[2].api = "chat.completions.create"

\* C6: once answer_question has issued its chat-completion call, the total it
\* holds for every file id is the sum of the scores of that file's search
\* results (a result without score adds 0, results without file id belong to no
\* file), the selected file has a total no lower than any other file's, the
\* prompt content is the non-empty texts of exactly the selected file's
\* results, in provider order, joined by newlines, and the reported relevance
\* score is the selected file's total.
C6_PromptFromHighestTotalFile ==
    ChatAsked =>
        LET data == doc.searchResponse.data
            best == doc.bestFileId
        IN  /\ best \in FilesOf(data)
            /\ DOMAIN doc.fileScoreMap = FilesOf(data)
            /\ \A f \in FilesOf(data) : doc.fileScoreMap[f] = TotalOf(data, f)
            /\ \A f \in FilesOf(data) : TotalOf(data, f) <= TotalOf(data, best)
            /\ asked[1].api = "vectorStores.search"
            /\ asked[2].content = Join(AllTexts(ChunksOfFile(data, best)))
            /\ (pc = "done" /\ result.status = "ok")
                  => result.data.relevance_score = TotalOf(data, best)

\* C6 witness: the chat call was issued for a file with two results whose
\* total, 4, is the highest although a result of another file, which has text
\* of its own, has a higher score than each of them.
C6_Witness ==
    /\ ChatAsked
    /\ LET data == doc.searchResponse.data
           best == doc.bestFileId
       IN  /\ Len(ChunksOfFile(data, best)) >= 2
           /\ \E i \in 1..Len(data) :
                 /\ FileOf(data[i]) \notin {"", best}
                 /\ Len(Texts(data[i])) > 0
                 /\ \A j \in 1..Len(data) :
                       FileOf(data[j]) = best => ScoreOf(data[j]) < ScoreOf(data[i])
           /\ TotalOf(data, best) = 4

\* C7 as stated: when several files tie for the highest total, the selected
\* file is the tied file whose first result comes first in provider order.
C7_TieSelectsFirstEncountered ==
    ChatAsked =>
        LET data == doc.searchResponse.data
            best == doc.bestFileId
        IN  \A f \in FilesOf(data) :
                TotalOf(data, f) = TotalOf(data, best)
                    => FirstIndex(data, best) <= FirstIndex(data, f)

\* C7 amended: when several files tie for the highest total, the selected file
\* is the tied file whose first result comes last in provider order.
C7_TieSelectsLastEncountered ==
    ChatAsked =>
        LET data == doc.searchResponse.data
            best == doc.bestFileId
        IN  \A f \in FilesOf(data) :
                TotalOf(data, f) = TotalOf(data, best)
                    => FirstIndex(data, best) >= FirstIndex(data, f)

\* C7 witness: the chat call was issued after a search whose two files have
\* the same, highest, total.
C7_Witness ==
    /\ ChatAsked
    /\ LET data == doc.searchResponse.data
       IN  \E f \in FilesOf(data) :
              /\ f # doc.bestFileId
              /\ TotalOf(data, f) = TotalOf(data, doc.bestFileId)
              /\ TotalOf(data, f) > 0

\* C10: a handler is always idle, awaiting an outbound call, or returned; when
\* it has returned, it returned a text; when an adapter request failed or the
\* adapter threw, the text is a failure text; and whenever no handler is
\* running (also after one that returned a failure text) the server accepts
\* the next invocation.
C10_HandlersReturnText ==
    /\ pc \in {"idle", "await", "ask", "done"}
    /\ pc = "done" =>
          /\ result.status \in {"ok", "fail", "partial"}
          /\ result.text # ""
    /\ (pc = "done" /\ failed # NoRequest) => result.status \in {"fail", "partial"}
    /\ (pc \notin {"await", "ask"} /\ served < MaxInvocations) => ENABLED Help

\* C10 witness: an invocation that started after one that returned a failure
\* text has itself returned after an outbound call of its own failed.
C10_Witness ==
    /\ afterFailure
    /\ pc = "done"
    /\ served >= 2
    /\ \/ failed # NoRequest
       \/ tool \in DocTools /\ Len(asked) > 0 /\ result.status = "fail"

\* message of the error the adapter raises for the failure o
Normalized(o) ==
    IF o.type = "http" /\ o.body # "" THEN <<"json", o.body>> ELSE o.message

\* C11: a bucket-delete that succeeds returns the fixed success text without
\* the response body and the bucket is gone; the same bucket-delete issued
\* again right after a successful one has its single DELETE answered with an
\* error and returns the failure text with the normalized remote error; and
\* after either the server accepts the next invocation.
C11_SecondDeleteFails ==
    (tool = "bucket-delete" /\ pc = "done") =>
        /\ result.status = "ok" =>
              /\ result = Success("Bucket deleted successfully", EmptyDoc)
              /\ Resource(tool, args.id) \notin DOMAIN remote
        /\ (sameAsBefore /\ ~afterFailure) =>
              /\ Len(calls) = 1
              /\ calls[1].verb = "delete"
              /\ failed = calls[1]
              /\ lastOutcome.type \in {"http", "net"}
              /\ result = Failure("Failed to delete bucket:", Normalized(lastOutcome))
        /\ served < MaxInvocations => ENABLED BucketDelete

\* C11 witness: the second of two identical bucket-delete calls, the first of
\* which succeeded, has returned its failure text with the remote's error body.
C11_Witness ==
    /\ tool = "bucket-delete"
    /\ pc = "done"
    /\ sameAsBefore
    /\ ~afterFailure
    /\ served = 2
    /\ args.id = "i1"
    /\ result.status = "fail"
    /\ lastOutcome.type = "http"
    /\ lastOutcome.body # ""

\* the parameters each schema marks as required
SchemaRequired(t) ==
    CASE t = "bucket-create" -> {"title", "description", "properties"}
      [] t = "bucket-update" -> {"id"}
      [] t = "bucket-delete" -> {"id"}
      [] t = "passport-identity-update" -> {"id"}
      [] t = "passport-apikey-update" -> {"id"}
      [] t = "passport-policy-update" -> {"id"}
      [] t = "passport-apikey-create" -> {"name"}
      [] t = "function-update" -> {"id"}
      [] t = "bucket-data-update" -> {"bucketId", "dataId", "data"}
      [] t = "passport-login" -> {"identifier", "password"}
      [] t = "search" -> {"query"}
      [] t = "answer_question" -> {"query"}
      [] t = "fetch" -> {"id"}
      [] OTHER -> {}

C13_OneAttemptNoRetry ==
    /\ attempts + (IF pc = "await" THEN 1 ELSE 0) = Len(calls)
    /\ failed # NoRequest =>
          /\ pc = "done"
          /\ lastOutcome.type \in {"http", "net"}
          /\ calls[Len(calls)] = failed
          /\ result.status \in {"fail", "partial"}
          /\ result.message = Normalized(lastOutcome)

\* C13 witness: the second request of a handler failed on the network and the
\* handler returned after two attempts in all.
C13_Witness ==
    /\ failed # NoRequest
    /\ pc = "done"
    /\ lastOutcome.type = "net"
    /\ Len(calls) = 2
    /\ attempts = 2

\* C14: when passport-apikey-create has returned its partial-failure text, it
\* has issued the POST and then attachment PUTs only, no DELETE and nothing
\* after the failed PUT; the created key is stored on the remote as created and
\* every attachment made before the failed one is still there.
C14_NoRollbackAfterPartialFailure ==
    (tool = "passport-apikey-create" /\ result.status = "partial") =>
        /\ pc = "done" /\ pending = NoRequest
        /\ calls[1].verb = "post"
        /\ \A j \in 2..Len(calls) : calls[j].verb = "put"
        /\ Len(calls) = local.idx + 1
        /\ calls[Len(calls)] = failed
        /\ <<"passport", "apikey", local.created["_id"]>> \in DOMAIN remote
        /\ remote[<<"passport", "apikey", local.created["_id"]>>] = local.created
        /\ \A k \in 1..(local.idx - 1) :
              <<"passport", "apikey", local.created["_id"], "policy",
                args.policies[k]>> \in DOMAIN remote

\* C14 witness: the first attachment succeeded and the second, of another
\* policy, failed: the key and the first attachment are on the remote.
C14_Witness ==
    /\ tool = "passport-apikey-create"
    /\ result.status = "partial"
    /\ local.idx = 2
    /\ args.policies[1] # args.policies[2]
    /\ <<"passport", "apikey", local.created["_id"], "policy",
         args.policies[1]>> \in DOMAIN remote

\* the tokens name=value occur in the query string of endpoint e
HasParam(e, name, value) ==
    \E i \in 4..(Len(e) - 2) :
        /\ e[i - 1] \in {"?", "&"}
        /\ e[i] = name /\ e[i + 1] = "=" /\ e[i + 2] = value

\* C15 as stated: the single GET of bucket-data-list carries limit=<limit> for
\* every supplied limit and skip=<skip> for every supplied skip, and the bare
\* path /bucket/{id}/data when neither is supplied.
C15_LimitSkipPassedThrough ==
    (tool = "bucket-data-list" /\ Len(calls) = 1) =>
        /\ calls[1].verb = "get"
        /\ SubSeq(calls[1].endpoint, 1, 3) = <<"bucket", args.id, "data">>
        /\ Has(args, "limit") =>
              HasParam(calls[1].endpoint, "limit", NumberToString(args.limit))
        /\ Has(args, "skip") =>
              HasParam(calls[1].endpoint, "skip", NumberToString(args.skip))
        /\ (~Has(args, "limit") /\ ~Has(args, "skip")) => Len(calls[1].endpoint) = 3

\* the query or id of a documentation tool invocation is empty
EmptyInput ==
    IF tool = "fetch" THEN args.id = "" ELSE args.query = ""

\* C16 as stated: a documentation tool invoked with an empty query or id, or
\* without provider client, or without vector store id, has returned an error
\* text and has issued no provider call.
C16_DocToolsFailFast ==
    (tool \in DocTools
     /\ (EmptyInput \/ ~openaiClient \/ VECTOR_STORE_ID = "")) =>
        /\ pc = "done"
        /\ result.status = "fail"
        /\ result.text # ""
        /\ asked = <<>>
        /\ awaited = NoCall

\* the value the stated resolution gives: the environment's when not empty,
\* otherwise the file's, otherwise empty
Resolved(fromEnv, key) ==
    IF fromEnv # "" THEN fromEnv
    ELSE IF Has(configFile, key) THEN configFile[key] ELSE ""

\* C17 as stated: every request carries the credential resolved from the
\* environment, else from config.json, and a tool fails with the configuration
\* error only when the base URL or the credential resolved that way is empty.
C17_EnvThenFile ==
    /\ \A i \in 1..Len(calls) :
          calls[i].authorization = Resolved(config.apiKey, "apiKey")
    /\ (pc = "done" /\ result.message = ConfigError) =>
          \/ Resolved(config.spicaUrl, "spicaUrl") = ""
          \/ Resolved(config.apiKey, "apiKey") = ""

\* number of registrations that carry the name
TimesRegistered(name) ==
    Cardinality({ i \in 1..Len(registry) : registry[i] = name })

\* C18: after bootstrap no tool name is registered twice: the names of the
\* registry are pairwise distinct across all groups.
C18_ToolNamesDistinct ==
    \A i, j \in 1..Len(registry) :
        i # j => registry[i] # registry[j]

\* all eight groups are registered and a tool of the last group has answered
C18_Witness ==
    /\ Len(registry) = 43
    /\ pc = "done"
    /\ tool = "help"
    /\ TimesRegistered(tool) = 1

\* the ways of writing a verb, whatever the case of its letters
Spellings(verb) ==
    CASE verb = "get" -> {"GET", "get", "Get"}
      [] verb = "post" -> {"POST", "post", "Post"}
      [] verb = "put" -> {"PUT", "put", "Put"}
      [] verb = "delete" -> {"DELETE", "delete", "Delete"}
      [] OTHER -> {}

C20_ErrorNormalized ==
    failed # NoRequest =>
        /\ lastOutcome.type \in {"http", "net"}
        /\ pc = "done"
        /\ result.message =
              IF lastOutcome.body \in ErrBodies
              THEN JSONStringify(lastOutcome.body)
              ELSE lastOutcome.message
        /\ IF tool = "none"
           THEN result.status = "raised"
           ELSE result.status = "fail" /\ result.text = FailText(tool)

\* C20 witness: a handler's request was refused with a body and the handler
\* returned its failure text carrying that body.
C20_Witness ==
    /\ tool = "bucket-delete"
    /\ pc = "done"
    /\ failed # NoRequest
    /\ lastOutcome.type = "http"
    /\ lastOutcome.body \in ErrBodies
    /\ result.status = "fail"
    /\ result.message = <<"json", lastOutcome.body>>

\* calls of the running invocation that have not returned yet
InFlight ==
    (IF pending # NoRequest THEN 1 ELSE 0) + (IF awaited # NoCall THEN 1 ELSE 0)

\* the calls an invocation can make at most: the POST and one PUT per policy,
\* a GET and a PUT, or the search, the listing and one retrieve per file
CallLimit ==
    IF tool = "passport-apikey-create" /\ Has(args, "policies")
    THEN 1 + Len(args.policies)
    ELSE IF tool = "search" THEN 2 + Len(doc.files)
    ELSE 2

OneCallAtATime ==
    /\ InFlight <= 1
    /\ InFlight = 1 <=> pc \in {"await", "ask"}
    /\ pc = "await" => pending = calls[Len(calls)]
    /\ pc = "ask" => awaited = asked[Len(asked)]
    /\ Len(calls) = attempts + (IF pc = "await" THEN 1 ELSE 0)
    /\ Len(calls) + Len(asked) <= CallLimit

\* C21: an invocation never has two calls in flight; each call is issued
\* when the one before it has been answered, one at a time; the number of
\* calls of an invocation is bounded by its arguments and the listing; and,
\* every call being answered, a running invocation returns a result.
C21_SequentialCalls ==
    /\ []OneCallAtATime
    /\ [][pc = "ask" => Len(asked') <= Len(asked) + 1]_vars
    /\ (pc \in {"await", "ask"}) ~> (pc = "done")

\* C21 witness: API-key creation has returned after three calls, the POST and
\* two attachments, each answered before the next was issued.
C21_Witness ==
    /\ tool = "passport-apikey-create"
    /\ pc = "done"
    /\ result.status = "ok"
    /\ Len(calls) = 3
    /\ attempts = 3

\* C22: the transport starts, and an invocation is served, only when all
\* eight groups are registered; until then the registry only grows at its
\* end; from then on no step changes the registry; and no step at all
\* changes the configuration.
C22_RegistryFixedAfterBootstrap ==
    /\ []((pc # "boot" \/ served > 0) => registry = Bootstrap)
    /\ [][/\ Len(registry') >= Len(registry)
          /\ SubSeq(registry', 1, Len(registry)) = registry
          /\ pc # "boot" => registry' = registry
          /\ config' = config
          /\ openaiClient' = openaiClient
          /\ VECTOR_STORE_ID' = VECTOR_STORE_ID]_vars

\* C22 witness: after bootstrap a tool of the first group has changed the
\* remote and the registry holds every group.
C22_Witness ==
    /\ registry = RegisteredUpTo(8)
    /\ Len(registry) = 43
    /\ tool = "bucket-delete"
    /\ pc = "done"
    /\ result.status = "ok"

\* the semantic search of the running invocation returned no result
NoSearchResult ==
    \/ ~Has(doc.searchResponse, "data")
    \/ Len(doc.searchResponse.data) = 0

\* C23: the first provider call of search is the semantic search; a listing
\* call is only ever its second call and only after a semantic search without
\* result; a search that returns entries after such a search has listed the
\* files, retrieved each listed file in turn and returns one entry per listed
\* file, none with a score; after a semantic search with results it has made
\* no other call and returns one entry per result, each with a score.
C23_ListOnlyAsFallback ==
    tool = "search" =>
        /\ Len(asked) >= 1 => asked[1].api = "vectorStores.search"
        /\ \A i \in 1..Len(asked) :
              asked[i].api = "vectorStores.files.list" =>
                  i = 2 /\ NoSearchResult
        /\ (pc = "done" /\ result.status = "ok") =>
              LET results == result.data.results
              IN  IF NoSearchResult
                  THEN /\ Len(asked) = 2 + Len(doc.files)
                       /\ asked[2].api = "vectorStores.files.list"
                       /\ Len(results) = Len(doc.files)
                       /\ \A i \in 1..Len(results) :
                             /\ results[i].id = doc.files[i].id
                             /\ asked[2 + i] = RetrieveCall(doc.files[i].id)
                             /\ ~Has(results[i], "score")
                  ELSE /\ Len(asked) = 1
                       /\ Len(results) = Len(doc.searchResponse.data)
                       /\ \A i \in 1..Len(results) : Has(results[i], "score")

\* C23 witness: the semantic search found nothing, two files were listed and
\* search returned two entries.
C23_Witness ==
    /\ tool = "search"
    /\ pc = "done"
    /\ result.status = "ok"
    /\ NoSearchResult
    /\ Len(result.data.results) = 2

\* positions of the chat-completion calls of the running invocation
ChatCalls ==
    { i \in 1..Len(asked) : asked[i].api = "chat.completions.create" }

\* the search of the running invocation returned a result with a file id
SearchGaveFile ==
    /\ Has(doc.searchResponse, "data")
    /\ \E i \in 1..Len(doc.searchResponse.data) :
          Has(doc.searchResponse.data[i], "file_id")

\* C24: answer_question makes at most one chat-completion call, as its
\* second call after a search that returned a result with a file id; when it
\* returns an answer it has made exactly the search and then one
\* chat-completion call; and when the search failed, returned nothing or
\* returned no result with a file id it returns without a chat-completion
\* call.
C24_OneChatCallAfterSearch ==
    tool = "answer_question" =>
        /\ ChatCalls \subseteq {2}
        /\ ChatCalls # {} =>
              asked[1].api = "vectorStores.search" /\ SearchGaveFile
        /\ (pc = "done" /\ result.status = "ok") =>
              Len(asked) = 2 /\ ChatCalls = {2}
        /\ (pc = "done" /\ Len(asked) >= 1 /\ ~SearchGaveFile) =>
              Len(asked) = 1 /\ ChatCalls = {} /\ result.status = "fail"

\* C24 witness: an answer was returned after the search and one chat call.
C24_Witness ==
    /\ tool = "answer_question"
    /\ pc = "done"
    /\ result.status = "ok"
    /\ ChatCalls = {2}
    /\ SearchGaveFile

\* a tool that calls the adapter has run as the first invocation
FirstRequestMade ==
    served = 1 /\ tool \in AdapterTools /\ pc \in {"await", "done"}

Listed == IF Has(args, "policies") THEN args.policies ELSE <<>>

\* C26: the first call of API-key creation is the POST and every later call
\* is issued after that POST was answered without error; when the POST fails
\* it stays the only call and the creation-failure text is returned; when
\* the tool returns its success text it has issued, after the POST, exactly
\* one PUT per listed policy id, in list order, to the policy path of the
\* key whose id the POST returned.
C26_AttachmentsFollowCreation ==
    tool = "passport-apikey-create" =>
        /\ Len(calls) >= 1 =>
              calls[1].verb = "post" /\ calls[1].endpoint = <<"passport", "apikey">>
        /\ Len(calls) >= 2 => failed # calls[1] /\ attempts >= 1
        /\ failed.verb = "post" =>
              /\ pc = "done"
              /\ Len(calls) = 1
              /\ result.status = "fail"
              /\ result.text = "Failed to create apikey:"
        /\ (pc = "done" /\ result.status = "ok") =>
              /\ result.text = "API key created successfully:"
              /\ Has(result.data, "_id")
              /\ <<"passport", "apikey", result.data["_id"]>> \in DOMAIN remote
              /\ Len(calls) = 1 + Len(Listed)
              /\ \A k \in 1..Len(Listed) :
                    /\ calls[1 + k].verb = "put"
                    /\ calls[1 + k].endpoint =
                          <<"passport", "apikey", result.data["_id"], "policy",
                            Listed[k]>>

\* C26 witness: a key was created with two listed policies and both
\* attachments succeeded.
C26_Witness ==
    /\ tool = "passport-apikey-create"
    /\ pc = "done"
    /\ result.status = "ok"
    /\ Len(Listed) = 2
    /\ Listed[1] # Listed[2]
    /\ Len(calls) = 3

\* C27: in every update tool, when the GET was answered with an error the
\* invocation has returned its failure text with that error after this one
\* call, no PUT was issued, and the step in which the GET failed left the
\* remote as it was.
C27_FailedGetStopsUpdate ==
    /\ []((tool \in UpdateTools /\ failed.verb = "get") =>
              /\ pc = "done"
              /\ pending = NoRequest
              /\ calls = <<failed>>
              /\ failed.endpoint = Resource(tool, args.id)
              /\ result.status = "fail"
              /\ result.text = FailText(tool)
              /\ result.message = Normalized(lastOutcome))
    /\ [][(tool \in UpdateTools /\ pc = "await" /\ pending.verb = "get"
              /\ failed'.verb = "get") => remote' = remote]_vars

\* C27 witness: the GET of an identity update was refused with a body and
\* the stored identity is still the initial one.
C27_Witness ==
    /\ tool = "passport-identity-update"
    /\ failed.verb = "get"
    /\ pc = "done"
    /\ lastOutcome.type = "http"
    /\ Len(calls) = 1
    /\ remote[Resource(tool, args.id)] = InitialRemote[Resource(tool, args.id)]

\* C28: bucket-data-update issues one request only, a PUT to
\* /bucket/{bucketId}/data/{dataId} whose body is the supplied data as it
\* is; after the PUT succeeded the stored record is that data, so a key of
\* the record stored before that the data does not name is gone.
C28_DataUpdateReplaces ==
    (tool = "bucket-data-update" /\ ConfigOK) =>
        /\ Len(calls) = 1
        /\ calls[1].verb = "put"
        /\ calls[1].endpoint = <<"bucket", args.bucketId, "data", args.dataId>>
        /\ calls[1].data = args.data
        /\ (pc = "done" /\ result.status = "ok") =>
              /\ remote[calls[1].endpoint] = args.data
              /\ result.data = args.data
              /\ \A k \in DOMAIN StoredRow :
                    k \notin DOMAIN args.data =>
                        k \notin DOMAIN remote[calls[1].endpoint]

\* C28 witness: the stored row had the keys _id, title and extra, the update
\* supplied title only and succeeded.
C28_Witness ==
    /\ tool = "bucket-data-update"
    /\ pc = "done"
    /\ result.status = "ok"
    /\ served = 1
    /\ DOMAIN args.data = {"title"}
    /\ DOMAIN remote[RowEndpoint("i1", "r1")] = {"title"}

C30_SuccessiveUpdatesCompose ==
    ( /\ tool \in UpdateTools
      /\ pc = "done"
      /\ result.status = "ok"
      /\ previous # EmptyDoc
      /\ args.update # EmptyDoc
      /\ DOMAIN previous \cap DOMAIN args.update = {} ) =>
        LET stored == remote[Resource(tool, args.id)]
        IN  /\ \A k \in DOMAIN previous :
                  Has(stored, k) /\ stored[k] = previous[k]
            /\ \A k \in DOMAIN args.update :
                  Has(stored, k) /\ stored[k] = args.update[k]

\* C30 witness: two API-key updates in a row, the first of the name and the
\* second of the description, both succeeded.
C30_Witness ==
    /\ tool = "passport-apikey-update"
    /\ pc = "done"
    /\ result.status = "ok"
    /\ DOMAIN previous = {"name"}
    /\ DOMAIN args.update = {"description"}

====
